---- MODULE Spec2Model ----
(***************************************************************************)
(* A model of the oxidian vault index (src/src/index.rs), of the vault     *)
(* path rules (src/src/vault.rs) and of the watcher's batch reconciler     *)
(* (src/src/service.rs).                                                   *)
(*                                                                         *)
(* A vault-relative path is a sequence of component names.  A file on disk *)
(* is a body (what parse_markdown_note reads) and an mtime.  The parser is *)
(* abstracted to the tag set and the link set of each body; every other    *)
(* parsed field of a note (title, aliases, fields, tasks, occurrences) is  *)
(* a function of the body and is carried as the body itself.  The index is *)
(* built without a schema, so the schema violation lists stay empty and    *)
(* are left out.                                                           *)
(***************************************************************************)
EXTENDS Integers, Sequences, FiniteSets, TLC

VARIABLES
    disk,       \* the directory tree under the vault root: path -> entry
    fsops,      \* number of filesystem changes made so far (bounded)
    index,      \* the VaultIndex (behind the service's RwLock)
    call,       \* the last direct VaultIndex call and what it returned
    before,     \* the VaultIndex as it was before the last direct call
    pending,    \* watch_loop: raw events received and not yet drained
    batch,      \* watch_loop: the events drained for the apply_events call under way
    pc,         \* watch_loop: "idle" in its select, "busy" while apply_events holds
                \* the write lock, "send" while it broadcasts, "top", "done"
    ops,        \* apply_events: the ops of the batch being applied
    ix,         \* apply_events: position of the next op to apply
    out,        \* apply_events: the VaultEvents produced so far
    saw,        \* per applied op: what the op read from disk, what it emitted
    raw,        \* the channel from notify's callback to watch_loop (raw_rx)
    watching,   \* the notify watcher is alive and holds raw_tx
    armed,      \* watch_loop: debounce_armed
    left,       \* watch_loop: time left until debounce_timer's deadline
    quiet,      \* time since watch_loop last received a raw event (capped)
    shutdown,   \* the value of the shutdown watch channel
    sd,         \* VaultService::shutdown: "none", "joining" or "returned"
    sx,         \* watch_loop: position in `applied` of the next event to broadcast
    sent,       \* every VaultEvent broadcast so far, with the number of its batch
    nb,         \* the number of batches drained so far
    rx,         \* the broadcast receivers: alive or dropped, and how far each has read
    got,        \* what the receiver "ui" got from recv(), in order
    store,      \* the calls made on the persistent store, in order
    built,      \* build_index: the index built by VaultIndex::build_with_schema
    bstate      \* build_index: "none", "scanned", "failed" or "swapped"

vars == <<disk, fsops, index, call, before, pending, batch, pc, ops, ix, out, saw,
          raw, watching, armed, left, quiet, shutdown, sd, sx, sent, nb,
          rx, got, store, built, bstate>>

\* the state of watch_loop, of shutdown() and of the broadcast channel
loopVars == <<raw, watching, armed, left, quiet, shutdown, sd, sx, sent, nb>>

\* the broadcast receivers, the persistent store and build_index
castVars == <<rx, got, store, built, bstate>>

-----------------------------------------------------------------------------
(* Bounds of the model *)

\* filesystem changes while the watcher runs
MaxFsOps == 3

\* filesystem changes made by a host that calls the index itself
MaxHostOps == 3

\* filesystem changes and notify errors while the whole watch loop is modelled
MaxLoopOps == 3

\* the same where termination is checked
MaxLiveOps == 2

\* filesystem changes while receivers, the store and build_index are modelled
MaxCastOps == 2

\* the capacity of the broadcast channel (512 in VaultService::new), scaled down
Capacity == 2

\* the debounce window (watch_debounce, 400 ms by default) in ticks of the clock
Debounce == 2

-----------------------------------------------------------------------------
(* Paths, names and the vault configuration *)

Root == "/vault"

FilePaths ==
    { <<"a.md">>, <<"n", "a.md">>, <<"m", "a.md">>, <<"p.png">>,
      <<".h.md">>, <<".trash", "a.md">> }

DirPaths == { <<"n">>, <<"m">> }

Paths == FilePaths \cup DirPaths

\* VaultConfig::default().ignore_dirs
ignore_dirs == {".obsidian", ".git", ".trash", "node_modules", "target"}

\* VaultConfig::default().note_extensions
note_extensions == {"md", "canvas"}

\* VaultConfig::default().attachment_extensions
attachment_extensions == {"png", "jpg", "jpeg", "gif", "webp", "svg", "pdf"}

\* str::starts_with('.') on the names of the model
StartsWithDot(name) == name \in {".h.md", ".trash", ".obsidian", ".git"}

\* Path::extension of a file name: the part after the last '.', none when the
\* name has no '.' or only a leading one
Extension(name) ==
    CASE name \in {"a.md", ".h.md"} -> "md"
      [] name = "p.png" -> "png"
      [] OTHER -> ""

\* str::to_lowercase on the extensions of the model
to_lowercase(s) ==
    CASE s = "MD" -> "md"
      [] s = "PNG" -> "png"
      [] OTHER -> s

file_name(rel) == IF Len(rel) = 0 THEN "" ELSE rel[Len(rel)]

is_ignored_rel(rel) == \E i \in 1..Len(rel) : rel[i] \in ignore_dirs

is_indexable_rel(rel) ==
    IF is_ignored_rel(rel) THEN FALSE
    ELSE IF Len(rel) = 0 THEN FALSE
    ELSE IF StartsWithDot(file_name(rel)) THEN FALSE
    ELSE TRUE

file_kind_from_path(rel) ==
    LET ext == to_lowercase(Extension(file_name(rel)))
    IN  IF ext \in note_extensions
        THEN CASE ext = "md" -> "Markdown"
               [] ext = "canvas" -> "Canvas"
               [] OTHER -> "Other"
        ELSE IF ext \in attachment_extensions THEN "Attachment"
        ELSE "Other"

-----------------------------------------------------------------------------
(* File bodies and what the parser extracts from them *)

Bodies == {"b1", "b2", "bad"}

\* a file as written: a body and the mtime of the write
Versions ==
    { [body |-> "b1", mtime |-> 1], [body |-> "b2", mtime |-> 2],
      [body |-> "bad", mtime |-> 1] }

\* std::fs::read_to_string fails on a body that is not UTF-8
ReadFails(body) == body = "bad"

\* parse_markdown_note(..).tags
ParsedTags(body) ==
    CASE body = "b1" -> {"t1", "t2"}
      [] body = "b2" -> {"t2", "t3"}
      [] OTHER -> {}

\* parse_markdown_note(..).links
ParsedLinks(body) ==
    CASE body = "b1" -> {"l1"}
      [] body = "b2" -> {"l2"}
      [] OTHER -> {}

\* std::fs::Metadata::len
FileLen(body) ==
    CASE body = "b1" -> 11
      [] body = "b2" -> 12
      [] OTHER -> 13

-----------------------------------------------------------------------------
(* The directory tree under the vault root *)

NoEnt == [type |-> "none"]

DirEnt(x) == [type |-> "dir", x |-> x]

FileEnt(v) == [type |-> "file", body |-> v.body, mtime |-> v.mtime]

Parent(p) == SubSeq(p, 1, Len(p) - 1)

IsPrefix(a, p) == Len(a) < Len(p) /\ SubSeq(p, 1, Len(a)) = a

\* every directory above p exists and can be searched; a directory the model
\* does not track (the root, .trash) always exists
ParentOk(d, p) ==
    \A a \in DirPaths : IsPrefix(a, p) => (d[a].type = "dir" /\ d[a].x)

\* std::fs::metadata(vault.to_abs(rel))
Stat(d, p) ==
    IF \E a \in DirPaths : IsPrefix(a, p) /\ d[a].type = "dir" /\ ~d[a].x
    THEN [err |-> "PermissionDenied", is_file |-> FALSE, mtime |-> 0, len |-> 0]
    ELSE IF d[p].type = "none"
    THEN [err |-> "NotFound", is_file |-> FALSE, mtime |-> 0, len |-> 0]
    ELSE IF d[p].type = "dir"
    THEN [err |-> "none", is_file |-> FALSE, mtime |-> 0, len |-> 0]
    ELSE [err |-> "none", is_file |-> TRUE, mtime |-> d[p].mtime,
          len |-> FileLen(d[p].body)]

\* std::fs::read_to_string(vault.to_abs(rel)) of a regular file
ReadToString(d, p) ==
    IF d[p].type # "file" THEN [err |-> "NotFound", body |-> ""]
    ELSE IF ReadFails(d[p].body) THEN [err |-> "InvalidData", body |-> ""]
    ELSE [err |-> "none", body |-> d[p].body]

HasChild(d, p) == \E r \in Paths : IsPrefix(p, r) /\ d[r].type # "none"

CanWrite(d, p) == p \in FilePaths /\ ParentOk(d, p) /\ d[p].type # "dir"

\* what the model writes to a path: every version to a note the index reads,
\* one version to a file whose body the index never reads
WritableVersions(p) ==
    IF is_indexable_rel(p) /\ file_kind_from_path(p) \in {"Markdown", "Canvas"}
    THEN Versions
    ELSE {[body |-> "b1", mtime |-> 1]}

DiskWrite(d, p, v) == [d EXCEPT ![p] = FileEnt(v)]

CanMkdir(d, p) == p \in DirPaths /\ ParentOk(d, p) /\ d[p].type = "none"

DiskMkdir(d, p) == [d EXCEPT ![p] = DirEnt(TRUE)]

CanRemove(d, p) ==
    /\ ParentOk(d, p)
    /\ \/ d[p].type = "file"
       \/ d[p].type = "dir" /\ ~HasChild(d, p)

DiskRemove(d, p) == [d EXCEPT ![p] = NoEnt]

CanChmod(d, p) == d[p].type = "dir" /\ ParentOk(d, p)

DiskChmod(d, p) == [d EXCEPT ![p] = DirEnt(~d[p].x)]

\* the path r is moved to when p is renamed to q (r is p or lies below p)
Moved(p, q, r) == q \o SubSeq(r, Len(p) + 1, Len(r))

\* rename(2): a file replaces a file or nothing, a directory moves with all
\* that is below it to a free name
CanRename(d, p, q) ==
    /\ p # q /\ ~IsPrefix(p, q) /\ ~IsPrefix(q, p)
    /\ ParentOk(d, p) /\ ParentOk(d, q)
    /\ \/ d[p].type = "file" /\ q \in FilePaths /\ d[q].type # "dir"
       \/ /\ d[p].type = "dir" /\ q \in DirPaths /\ d[q].type = "none"
          /\ \A r \in Paths : IsPrefix(p, r) /\ d[r].type # "none"
                                => Moved(p, q, r) \in Paths

DiskRename(d, p, q) ==
    [r \in Paths |->
        IF r = q THEN d[p]
        ELSE IF IsPrefix(q, r)
        THEN LET src == Moved(q, p, r)
             IN  IF src \in Paths THEN d[src] ELSE NoEnt
        ELSE IF r = p \/ IsPrefix(p, r) THEN NoEnt
        ELSE d[r]]

-----------------------------------------------------------------------------
(* VaultIndex *)

EmptyMap == [x \in {} |-> {}]

Put(f, k, v) == [x \in DOMAIN f \cup {k} |-> IF x = k THEN v ELSE f[x]]

\* a HashMap::remove that removes nothing
Del_Keeps(f, k) == f

Del(f, k) == [x \in DOMAIN f \ {k} |-> f[x]]

\* the previous per-file set is forgotten
OldSet_Forgotten(f, k) == {}

\* Option<BTreeSet<_>>::unwrap_or_default of HashMap::insert / remove / get
OldSet(f, k) == IF k \in DOMAIN f THEN f[k] ELSE {}

\* VaultIndex::default()
EmptyIndex ==
    [files |-> EmptyMap, notes |-> EmptyMap, file_tags |-> EmptyMap,
     file_links |-> EmptyMap, tags |-> EmptyMap]

\* IndexDelta::default()
EmptyDelta ==
    [added_tags |-> {}, removed_tags |-> {}, added_links |-> {}, removed_links |-> {}]

FileMeta(rel, st) ==
    [path |-> rel, kind |-> file_kind_from_path(rel), mtime |-> st.mtime, size |-> st.len]

NoteMeta(rel, st, body) ==
    [file |-> FileMeta(rel, st), body |-> body,
     tags |-> ParsedTags(body), links |-> ParsedLinks(body)]

\* tags whose path set becomes empty are kept
DropFromTags_KeepsEmpty(tags, rel, gone) ==
    [t \in DOMAIN tags |-> IF t \in gone THEN tags[t] \ {rel} ELSE tags[t]]

\* the tag -> paths map after `rel` left the path sets of the tags in `gone`;
\* a tag whose path set becomes empty is removed
DropFromTags(tags, rel, gone) ==
    [t \in {u \in DOMAIN tags : ~(u \in gone /\ tags[u] \ {rel} = {})} |->
        IF t \in gone THEN tags[t] \ {rel} ELSE tags[t]]

\* the tag -> paths map after `rel` joined the path sets of the tags in `added`
AddToTags(tags, rel, added) ==
    [t \in DOMAIN tags \cup added |->
        (IF t \in DOMAIN tags THEN tags[t] ELSE {})
            \cup (IF t \in added THEN {rel} ELSE {})]

reconcile_tag_index(tags, rel, old, new) ==
    LET added == new \ old
        removed == old \ new
    IN  [tags |-> DropFromTags(AddToTags(tags, rel, added), rel, removed),
         delta |-> [EmptyDelta EXCEPT !.added_tags = added, !.removed_tags = removed]]

\* every link of the new set is reported as added
reconcile_link_index_AllAdded(delta, rel, old, new) ==
    [delta EXCEPT !.added_links = new, !.removed_links = old \ new]

reconcile_link_index(delta, rel, old, new) ==
    [delta EXCEPT !.added_links = new \ old, !.removed_links = old \ new]

Ok(idx, delta) == [idx |-> idx, ok |-> TRUE, err |-> "none", delta |-> delta]

Err(idx, e) == [idx |-> idx, ok |-> FALSE, err |-> e, delta |-> EmptyDelta]

\* the FileMeta is inserted before the note is read, and stays when the read fails
upsert_path_FilesFirst(idx, rel, st, rd) ==
    IF ~is_indexable_rel(rel) THEN Ok(idx, EmptyDelta)
    ELSE IF st.err # "none" THEN Err(idx, st.err)
    ELSE IF ~st.is_file THEN Ok(idx, EmptyDelta)
    ELSE Err([idx EXCEPT !.files = Put(idx.files, rel, FileMeta(rel, st))],
             IF rd.err # "none" THEN rd.err ELSE "InvalidData")

\* VaultIndex::upsert_path; st is what std::fs::metadata returns for the path
\* and rd what std::fs::read_to_string returns
upsert_path(idx, rel, st, rd) ==
    IF ~is_indexable_rel(rel) THEN Ok(idx, EmptyDelta)
    ELSE IF st.err # "none" THEN Err(idx, st.err)
    ELSE IF ~st.is_file THEN Ok(idx, EmptyDelta)
    ELSE
    LET kind == file_kind_from_path(rel)
        isNote == kind \in {"Markdown", "Canvas"}
    IN  IF isNote /\ rd.err # "none" THEN Err(idx, rd.err)
        ELSE
        LET new_tags == IF isNote THEN ParsedTags(rd.body) ELSE {}
            new_links == IF isNote THEN ParsedLinks(rd.body) ELSE {}
            old_tags == OldSet(idx.file_tags, rel)
            old_links == OldSet(idx.file_links, rel)
            rt == reconcile_tag_index(idx.tags, rel, old_tags, new_tags)
            delta == reconcile_link_index(rt.delta, rel, old_links, new_links)
        IN  Ok([files |-> Put(idx.files, rel, FileMeta(rel, st)),
                notes |-> IF isNote THEN Put(idx.notes, rel, NoteMeta(rel, st, rd.body))
                          ELSE Del(idx.notes, rel),
                file_tags |-> Put(idx.file_tags, rel, new_tags),
                file_links |-> Put(idx.file_links, rel, new_links),
                tags |-> rt.tags],
               delta)

\* the NoteMeta of the path is left behind
remove_path_KeepsNote(idx, rel) ==
    LET old_tags == OldSet(idx.file_tags, rel)
        old_links == OldSet(idx.file_links, rel)
    IN  [idx |-> [files |-> Del(idx.files, rel),
                  notes |-> idx.notes,
                  file_tags |-> Del(idx.file_tags, rel),
                  file_links |-> Del(idx.file_links, rel),
                  tags |-> DropFromTags(idx.tags, rel, old_tags)],
         delta |-> [added_tags |-> {}, removed_tags |-> old_tags,
                    added_links |-> {}, removed_links |-> old_links]]

\* the link set of the path is left behind
remove_path_KeepsLinks(idx, rel) ==
    LET old_tags == OldSet(idx.file_tags, rel)
        old_links == OldSet(idx.file_links, rel)
    IN  [idx |-> [files |-> Del(idx.files, rel),
                  notes |-> Del(idx.notes, rel),
                  file_tags |-> Del(idx.file_tags, rel),
                  file_links |-> idx.file_links,
                  tags |-> DropFromTags(idx.tags, rel, old_tags)],
         delta |-> [added_tags |-> {}, removed_tags |-> old_tags,
                    added_links |-> {}, removed_links |-> old_links]]

\* VaultIndex::remove_path
remove_path(idx, rel) ==
    LET old_tags == OldSet(idx.file_tags, rel)
        old_links == OldSet(idx.file_links, rel)
    IN  [idx |-> [files |-> Del(idx.files, rel),
                  notes |-> Del(idx.notes, rel),
                  file_tags |-> Del(idx.file_tags, rel),
                  file_links |-> Del(idx.file_links, rel),
                  tags |-> DropFromTags(idx.tags, rel, old_tags)],
         delta |-> [added_tags |-> {}, removed_tags |-> old_tags,
                    added_links |-> {}, removed_links |-> old_links]]

-----------------------------------------------------------------------------
(* Initial state: VaultService::new on a vault that holds one empty        *)
(* directory; the index is empty until something is indexed.               *)

InitDisk == [p \in Paths |-> IF p = <<"n">> THEN DirEnt(TRUE) ELSE NoEnt]

NoStat == [err |-> "NotFound", is_file |-> FALSE, mtime |-> 0, len |-> 0]

NoRead == [err |-> "NotFound", body |-> ""]

\* no call yet.  `tick` alternates with each call; `dirty` tells whether the
\* file at `path` has changed since the call looked at it; `follows` tells
\* whether the call before this one was an upsert_path of the same path, and
\* whether the path was indexed ("indexed") or not ("fresh") before that upsert
NoCall ==
    [op |-> "none", path |-> <<>>, ok |-> TRUE, err |-> "none",
     delta |-> EmptyDelta, tick |-> 0, dirty |-> FALSE, follows |-> "none"]

\* the service and its index before anything has happened
InitService ==
    /\ disk = InitDisk
    /\ fsops = 0
    /\ index = EmptyIndex
    /\ before = EmptyIndex
    /\ pending = <<>>
    /\ batch = <<>>
    /\ pc = "idle"
    /\ ops = <<>>
    /\ ix = 1
    /\ out = <<>>
    /\ saw = <<>>
    /\ raw = <<>>
    /\ watching = TRUE
    /\ armed = FALSE
    /\ left = Debounce
    /\ quiet = 0
    /\ shutdown = FALSE
    /\ sd = "none"
    /\ sx = 1
    /\ sent = <<>>
    /\ nb = 0
    /\ rx = [s \in {"ui", "store"} |-> [alive |-> TRUE, next |-> 0]]
    /\ got = <<>>
    /\ store = <<>>
    /\ built = EmptyIndex
    /\ bstate = "none"

Init ==
    /\ InitService
    /\ call = NoCall

watchVars == <<pending, batch, pc, ops, ix, out, saw>>

-----------------------------------------------------------------------------
(* Direct use of a VaultIndex: the host changes files and calls upsert_path *)
(* and remove_path itself; no watcher runs.                                *)

\* the trees one filesystem change away from d
NextDisks(d) ==
    UNION {{DiskWrite(d, p, v) : v \in WritableVersions(p)} :
                p \in {q \in Paths : CanWrite(d, q)}}
    \cup {DiskMkdir(d, p) : p \in {q \in Paths : CanMkdir(d, q)}}
    \cup {DiskRemove(d, p) : p \in {q \in Paths : CanRemove(d, q)}}
    \cup {DiskChmod(d, p) : p \in {q \in Paths : CanChmod(d, q)}}
    \cup UNION {{DiskRename(d, p, q) : q \in {r \in Paths : CanRename(d, p, r)}} : p \in Paths}

\* the part of the vault the host works on in this use of the index
HostPaths == { <<"a.md">>, <<"n">>, <<"n", "a.md">>, <<"p.png">>, <<".h.md">> }

HostChangesDisk ==
    /\ fsops < MaxHostOps
    /\ \E d \in NextDisks(disk) :
          /\ d # disk
          /\ \A p \in Paths \ HostPaths : d[p] = disk[p]
          /\ disk' = d
    /\ fsops' = fsops + 1
    /\ call' = [call EXCEPT !.dirty =
                  \/ call.dirty
                  \/ /\ call.path \in Paths
                     /\ \/ Stat(disk', call.path) # Stat(disk, call.path)
                        \/ ReadToString(disk', call.path) # ReadToString(disk, call.path)]
    /\ UNCHANGED <<index, before>>
    /\ UNCHANGED watchVars
    /\ UNCHANGED <<loopVars, castVars>>

CallRecord(op, rel, r, dirty) ==
    [op |-> op, path |-> rel, ok |-> r.ok, err |-> r.err, delta |-> r.delta,
     tick |-> 1 - call.tick, dirty |-> dirty,
     follows |-> IF call.op = "upsert_path" /\ call.path = rel
                 THEN (IF rel \in DOMAIN before.files THEN "indexed" ELSE "fresh")
                 ELSE "none"]

\* index.upsert_path(&vault, rel)
CallUpsert(rel) ==
    LET st == Stat(disk, rel)
        rd == ReadToString(disk, rel)
        r == upsert_path(index, rel, st, rd)
    IN  /\ index' = r.idx
        /\ call' = CallRecord("upsert_path", rel, r, FALSE)
        /\ before' = index
        /\ UNCHANGED <<disk, fsops>>
        /\ UNCHANGED watchVars
        /\ UNCHANGED <<loopVars, castVars>>

\* index.upsert_path(&vault, rel) of a note that is deleted after the call has
\* read its metadata and before it reads the body
CallUpsertRaced(rel) ==
    LET st == Stat(disk, rel)
        rd == NoRead
        r == upsert_path(index, rel, st, rd)
    IN  /\ fsops < MaxHostOps
        /\ st.err = "none" /\ st.is_file /\ CanRemove(disk, rel)
        /\ is_indexable_rel(rel)
        /\ file_kind_from_path(rel) \in {"Markdown", "Canvas"}
        /\ disk' = DiskRemove(disk, rel)
        /\ fsops' = fsops + 1
        /\ index' = r.idx
        /\ call' = CallRecord("upsert_path", rel, r, TRUE)
        /\ before' = index
        /\ UNCHANGED watchVars
        /\ UNCHANGED <<loopVars, castVars>>

\* index.remove_path(&rel)
CallRemove(rel) ==
    LET r == remove_path(index, rel)
    IN  /\ index' = r.idx
        /\ call' = CallRecord("remove_path", rel,
                              [ok |-> TRUE, err |-> "none", delta |-> r.delta],
                              FALSE)
        /\ before' = index
        /\ UNCHANGED <<disk, fsops>>
        /\ UNCHANGED watchVars
        /\ UNCHANGED <<loopVars, castVars>>

NextIndex ==
    \/ HostChangesDisk
    \/ \E rel \in HostPaths : CallUpsert(rel)
    \/ \E rel \in HostPaths : CallUpsertRaced(rel)
    \/ \E rel \in HostPaths : CallRemove(rel)

SpecIndex == Init /\ [][NextIndex]_vars

-----------------------------------------------------------------------------
(* Properties of the index under direct calls (SpecIndex) *)

AllTags == UNION {ParsedTags(b) : b \in Bodies}

AllLinks == UNION {ParsedLinks(b) : b \in Bodies}

\* the paths the reverse index lists for a tag
TagPaths(idx, t) == IF t \in DOMAIN idx.tags THEN idx.tags[t] ELSE {}

\* the step is a direct call of `op`
Called(op) == call'.op = op /\ call'.tick # call.tick

\* C1: the reverse tag index is exact: p is in tags[t] iff t is in
\* notes[p].tags, and no tag maps to an empty path set.
C1_TagIndexExact ==
    /\ \A t \in DOMAIN index.tags \cup AllTags : \A p \in Paths :
          p \in TagPaths(index, t)
            <=> (p \in DOMAIN index.notes /\ t \in index.notes[p].tags)
    /\ \A t \in DOMAIN index.tags : index.tags[t] # {}

\* a tag shared by two notes, right after an upsert that took a tag off a note
C1_Witness ==
    /\ call.op = "upsert_path" /\ call.delta.removed_tags # {}
    /\ \E t \in DOMAIN index.tags : Cardinality(index.tags[t]) = 2

\* C2: a successful upsert_path(p) returns the set difference between p's
\* per-file sets before and after the call, added and removed are disjoint,
\* and the reverse tag index changes by exactly those additions and removals.
C2_UpsertDelta ==
    [][(Called("upsert_path") /\ call'.ok) =>
        LET p == call'.path
            d == call'.delta
            oldT == OldSet(index.file_tags, p)
            newT == OldSet(index'.file_tags, p)
            oldL == OldSet(index.file_links, p)
            newL == OldSet(index'.file_links, p)
        IN  /\ d.added_tags = newT \ oldT
            /\ d.removed_tags = oldT \ newT
            /\ d.added_links = newL \ oldL
            /\ d.removed_links = oldL \ newL
            /\ d.added_tags \cap d.removed_tags = {}
            /\ d.added_links \cap d.removed_links = {}
            /\ \A t \in AllTags \cup DOMAIN index.tags \cup DOMAIN index'.tags :
                  TagPaths(index', t) =
                    (TagPaths(index, t) \cup (IF t \in d.added_tags THEN {p} ELSE {}))
                        \ (IF t \in d.removed_tags THEN {p} ELSE {})]_vars

\* an upsert that added a tag and a link and removed a tag and a link
C2_Witness ==
    /\ call.op = "upsert_path" /\ call.ok
    /\ call.delta.added_tags # {} /\ call.delta.removed_tags # {}
    /\ call.delta.added_links # {} /\ call.delta.removed_links # {}

\* C3: remove_path(p) drops p from files, notes and the per-file maps and from
\* every tag's path set (no tag is left with an empty set), returns p's prior
\* sets as removed and nothing as added, leaves every other path alone, and
\* for a path that is not indexed returns an empty delta and changes nothing.
C3_RemovePath ==
    [][Called("remove_path") =>
        LET p == call'.path
            d == call'.delta
        IN  /\ p \notin DOMAIN index'.files /\ p \notin DOMAIN index'.notes
            /\ p \notin DOMAIN index'.file_tags /\ p \notin DOMAIN index'.file_links
            /\ \A t \in DOMAIN index'.tags :
                  /\ index'.tags[t] = TagPaths(index, t) \ {p}
                  /\ index'.tags[t] # {}
            /\ \A t \in DOMAIN index.tags :
                  t \in DOMAIN index'.tags \/ index.tags[t] \subseteq {p}
            /\ d.removed_tags = OldSet(index.file_tags, p)
            /\ d.removed_links = OldSet(index.file_links, p)
            /\ d.added_tags = {} /\ d.added_links = {}
            /\ Del(index.files, p) = index'.files
            /\ Del(index.notes, p) = index'.notes
            /\ Del(index.file_tags, p) = index'.file_tags
            /\ Del(index.file_links, p) = index'.file_links
            /\ p \notin DOMAIN index.files => (d = EmptyDelta /\ index' = index)]_vars

\* a remove_path of an indexed note whose tags were partly shared
C3_Witness ==
    /\ call.op = "remove_path" /\ call.path \in DOMAIN before.files
    /\ call.delta.removed_tags # {} /\ call.delta.removed_links # {}
    /\ \E t \in call.delta.removed_tags : t \in DOMAIN index.tags
    /\ \E t \in call.delta.removed_tags : t \notin DOMAIN index.tags

\* C4: when upsert_path(p) is called twice in a row and the file has not
\* changed since the first call looked at it, the second call returns as the
\* first did, with an empty delta, and leaves the index (notes, tags, link
\* sets) unchanged.
C4_RepeatedUpsert ==
    [][(/\ Called("upsert_path")
        /\ call.op = "upsert_path" /\ call'.path = call.path
        /\ ~call.dirty /\ disk' = disk) =>
        (/\ call'.ok = call.ok
         /\ call'.delta = EmptyDelta
         /\ index' = index)]_vars

\* the second of two upserts of an indexed note with tags and links
C4_Witness ==
    /\ call.op = "upsert_path" /\ call.ok
    /\ call.follows # "none"
    /\ call.delta = EmptyDelta /\ before = index
    /\ call.path \in DOMAIN index.notes
    /\ index.notes[call.path].tags # {} /\ index.notes[call.path].links # {}

\* the index without the file metadata (mtime, size) it holds
ModuloFileMeta(idx) ==
    [files |-> [p \in DOMAIN idx.files |-> idx.files[p].kind],
     notes |-> [p \in DOMAIN idx.notes |->
                  [body |-> idx.notes[p].body, tags |-> idx.notes[p].tags,
                   links |-> idx.notes[p].links]],
     file_tags |-> idx.file_tags, file_links |-> idx.file_links,
     tags |-> idx.tags]

\* C5 as stated: upsert_path(p) followed at once by remove_path(p) leaves the
\* index as it was before the upsert, modulo file metadata, for every p.
C5_AsStated ==
    [][(/\ Called("remove_path")
        /\ call.op = "upsert_path" /\ call'.path = call.path) =>
        ModuloFileMeta(index') = ModuloFileMeta(before)]_vars

\* C5: for a path p that is not indexed, upsert_path(p) followed at once by
\* remove_path(p) leaves the index as it was before the upsert.
C5_UpsertThenRemove ==
    [][(/\ Called("remove_path")
        /\ call.op = "upsert_path" /\ call'.path = call.path
        /\ call.path \notin DOMAIN before.files) =>
        index' = before]_vars

\* a remove_path right after the upsert_path that first indexed a tagged note,
\* while another note shares a tag with it
C5_Witness ==
    /\ call.op = "remove_path" /\ call.follows = "fresh"
    /\ call.delta.removed_tags # {}
    /\ \E t \in call.delta.removed_tags : t \in DOMAIN index.tags

-----------------------------------------------------------------------------
(* The watcher: notify events, events_to_ops, apply_events                 *)

Abs(rel) == <<Root>> \o rel

None == [some |-> FALSE, path |-> <<>>]

Some(rel) == [some |-> TRUE, path |-> rel]

\* keeps the Normal components of a relative path (CurDir is dropped)
Cleaned(rel) == SelectSeq(rel, LAMBDA c : c # ".")

\* VaultPath::try_from of a relative path
VaultPathTryFrom(rel) ==
    IF Len(rel) = 0 THEN None
    ELSE IF \E i \in 1..Len(rel) : rel[i] = ".." THEN None
    ELSE IF Len(Cleaned(rel)) = 0 THEN None
    ELSE Some(Cleaned(rel))

\* Vault::to_rel
to_rel(abs) ==
    IF Len(abs) = 0 \/ abs[1] # Root THEN None
    ELSE VaultPathTryFrom(Tail(abs))

to_vault_path(abs) == to_rel(abs)

Event(kind, paths) == [kind |-> kind, paths |-> paths]

watch_kind_from_event_kind(kind) ==
    CASE kind = "Create" -> "Create"
      [] kind = "Remove" -> "Remove"
      [] kind = "Access" -> "Access"
      [] kind = "Modify(Name(From))" -> "Rename"
      [] kind = "Modify(Name(To))" -> "Rename"
      [] kind = "Modify(Name(Both))" -> "Rename"
      [] kind = "Modify(Metadata)" -> "ModifyMetadata"
      [] kind = "Modify(Data)" -> "ModifyData"
      [] kind = "Modify(Any)" -> "Modify"
      [] OTHER -> "Other"

\* ReindexCause::Watch
Watch(kind, event_kind) == [kind |-> kind, event_kind |-> event_kind]

cause_from_event_kind(kind) == Watch(watch_kind_from_event_kind(kind), kind)

rank_cause(cause) ==
    CASE cause.kind = "Manual" -> 100
      [] cause.kind = "InitialBuild" -> 10
      [] cause.kind = "Remove" -> 90
      [] cause.kind = "Rename" -> 80
      [] cause.kind = "Create" -> 70
      [] cause.kind = "ModifyData" -> 60
      [] cause.kind = "Modify" -> 50
      [] cause.kind = "ModifyMetadata" -> 40
      [] cause.kind = "Access" -> 30
      [] OTHER -> 20

\* the cause of the later event is kept whatever its rank
merge_cause_LastWins(old, new) == new

merge_cause(old, new) == IF rank_cause(new) >= rank_cause(old) THEN new ELSE old

OpUpsert(path, cause) == [type |-> "Upsert", path |-> path, cause |-> cause]

OpRemove(path, cause) == [type |-> "Remove", path |-> path, cause |-> cause]

OpRename(from, to, cause) == [type |-> "Rename", from |-> from, to |-> to, cause |-> cause]

\* the accumulators of events_to_ops: the ops and the two position maps
NoOps == [ops |-> <<>>, upsert_ix |-> EmptyMap, remove_ix |-> EmptyMap]

\* events_to_ops, EventKind::Remove arm, for one path of the event
RemoveArm(acc, abs, ev_cause) ==
    LET rel == to_vault_path(abs)
    IN  IF ~rel.some THEN acc
        ELSE IF rel.path \in DOMAIN acc.remove_ix
        THEN LET i == acc.remove_ix[rel.path]
             IN  [acc EXCEPT !.ops[i].cause = merge_cause(acc.ops[i].cause, ev_cause)]
        ELSE [acc EXCEPT !.ops = Append(acc.ops, OpRemove(rel.path, ev_cause)),
                         !.remove_ix = Put(acc.remove_ix, rel.path, Len(acc.ops) + 1)]

\* events_to_ops, default arm, for one path of the event
UpsertArm(acc, abs, ev_cause) ==
    LET rel == to_vault_path(abs)
    IN  IF ~rel.some THEN acc
        ELSE IF ~is_indexable_rel(rel.path) THEN acc
        ELSE IF rel.path \in DOMAIN acc.upsert_ix
        THEN LET i == acc.upsert_ix[rel.path]
             IN  [acc EXCEPT !.ops[i].cause = merge_cause(acc.ops[i].cause, ev_cause)]
        ELSE [acc EXCEPT !.ops = Append(acc.ops, OpUpsert(rel.path, ev_cause)),
                         !.upsert_ix = Put(acc.upsert_ix, rel.path, Len(acc.ops) + 1)]

\* events_to_ops, Modify(Name) arm of an event with two paths
RenameArm(acc, ev) ==
    LET from == to_vault_path(ev.paths[1])
        to == to_vault_path(ev.paths[2])
    IN  IF from.some /\ to.some
        THEN [acc EXCEPT !.ops = Append(acc.ops,
                                   OpRename(from.path, to.path, Watch("Rename", ev.kind)))]
        ELSE acc

RECURSIVE ForPaths(_, _, _, _, _)
\* `for p in &ev.paths` of the Remove arm (remove = TRUE) or of the default arm
ForPaths(acc, paths, j, ev_cause, remove) ==
    IF j > Len(paths) THEN acc
    ELSE ForPaths(IF remove THEN RemoveArm(acc, paths[j], ev_cause)
                  ELSE UpsertArm(acc, paths[j], ev_cause),
                  paths, j + 1, ev_cause, remove)

\* Access events are treated as changes
OneEvent_AccessKept(acc, ev) ==
    IF ev.kind = "Modify(Metadata)" THEN acc
    ELSE IF watch_kind_from_event_kind(ev.kind) = "Rename" /\ Len(ev.paths) = 2
    THEN RenameArm(acc, ev)
    ELSE IF ev.kind = "Remove"
    THEN ForPaths(acc, ev.paths, 1, cause_from_event_kind(ev.kind), TRUE)
    ELSE ForPaths(acc, ev.paths, 1, cause_from_event_kind(ev.kind), FALSE)

\* the body of `for ev in batch` in events_to_ops
OneEvent(acc, ev) ==
    IF ev.kind = "Access" THEN acc
    ELSE IF ev.kind = "Modify(Metadata)" THEN acc
    ELSE IF watch_kind_from_event_kind(ev.kind) = "Rename" /\ Len(ev.paths) = 2
    THEN RenameArm(acc, ev)
    ELSE IF ev.kind = "Remove"
    THEN ForPaths(acc, ev.paths, 1, cause_from_event_kind(ev.kind), TRUE)
    ELSE ForPaths(acc, ev.paths, 1, cause_from_event_kind(ev.kind), FALSE)

RECURSIVE ForEvents(_, _, _)
ForEvents(acc, evs, i) ==
    IF i > Len(evs) THEN acc
    ELSE ForEvents(OneEvent(acc, evs[i]), evs, i + 1)

events_to_ops(evs) == ForEvents(NoOps, evs, 1).ops

-----------------------------------------------------------------------------
(* apply_events *)

Indexed(path, cause, delta) ==
    [type |-> "Indexed", path |-> path, cause |-> cause, delta |-> delta]

Removed(path, cause, delta) ==
    [type |-> "Removed", path |-> path, cause |-> cause, delta |-> delta]

Renamed(from, to, cause, delta) ==
    [type |-> "Renamed", from |-> from, to |-> to, cause |-> cause, delta |-> delta]

ErrorEvent(path, error) == [type |-> "Error", path |-> Some(path), error |-> error]

\* a directory is taken for a file
StatKind_DirIsFile(st) ==
    IF st.err # "none" THEN st.err ELSE "file"

\* what a std::fs::metadata result is matched as
StatKind(st) ==
    IF st.err # "none" THEN st.err ELSE IF st.is_file THEN "file" ELSE "dir"

\* what one op did: the index after it, the events it pushed, what its own
\* metadata call found (`stat`) and how its upsert_path ended (`up`)
Applied(idx, evs, stat, up) == [idx |-> idx, evs |-> evs, stat |-> stat, up |-> up]

UpResult(r) == IF r.ok THEN "Ok" ELSE r.err

\* a missing file is reported as an error instead of being removed
ApplyUpsert_NotFoundIsError(idx, op, d1, d2) ==
    LET st == Stat(d1, op.path)
        kind == StatKind(st)
    IN  IF kind = "dir" THEN Applied(idx, <<>>, kind, "none")
        ELSE IF kind # "file"
        THEN Applied(idx, <<ErrorEvent(op.path, st.err)>>, kind, "none")
        ELSE
        LET r == upsert_path(idx, op.path, Stat(d2, op.path), ReadToString(d2, op.path))
        IN  IF r.ok
            THEN Applied(r.idx, <<Indexed(op.path, op.cause, r.delta)>>, kind, "Ok")
            ELSE Applied(r.idx, <<ErrorEvent(op.path, r.err)>>, kind, r.err)

\* Op::Upsert; d1 is the tree at the op's own metadata call, d2 the tree when
\* upsert_path runs
ApplyUpsert(idx, op, d1, d2) ==
    LET st == Stat(d1, op.path)
        kind == StatKind(st)
    IN  IF kind = "dir" THEN Applied(idx, <<>>, kind, "none")
        ELSE IF kind = "NotFound"
        THEN LET rm == remove_path(idx, op.path)
             IN  Applied(rm.idx, <<Removed(op.path, op.cause, rm.delta)>>, kind, "none")
        ELSE IF kind # "file"
        THEN Applied(idx, <<ErrorEvent(op.path, st.err)>>, kind, "none")
        ELSE
        LET r == upsert_path(idx, op.path, Stat(d2, op.path), ReadToString(d2, op.path))
        IN  IF r.ok
            THEN Applied(r.idx, <<Indexed(op.path, op.cause, r.delta)>>, kind, "Ok")
            ELSE IF r.err = "NotFound"
            THEN LET rm == remove_path(r.idx, op.path)
                 IN  Applied(rm.idx, <<Removed(op.path, op.cause, rm.delta)>>, kind, r.err)
            ELSE Applied(r.idx, <<ErrorEvent(op.path, r.err)>>, kind, r.err)

\* Op::Remove
ApplyRemove(idx, op) ==
    LET rm == remove_path(idx, op.path)
    IN  Applied(rm.idx, <<Removed(op.path, op.cause, rm.delta)>>, "none", "none")

\* the removed side of the delta is taken from the upsert of `to`
ApplyRename_RemovedOfTo(idx, op, d) ==
    LET removed == remove_path(idx, op.from)
        r == upsert_path(removed.idx, op.to, Stat(d, op.to), ReadToString(d, op.to))
        added == IF r.ok THEN r.delta ELSE EmptyDelta
    IN  Applied(r.idx,
                (IF r.ok THEN <<>> ELSE <<ErrorEvent(op.to, r.err)>>)
                    \o <<Renamed(op.from, op.to, op.cause, added)>>,
                "none", UpResult(r))

\* Op::Rename
ApplyRename(idx, op, d) ==
    LET removed == remove_path(idx, op.from)
        r == upsert_path(removed.idx, op.to, Stat(d, op.to), ReadToString(d, op.to))
        added == IF r.ok THEN r.delta ELSE EmptyDelta
        delta == [added_tags |-> added.added_tags,
                  removed_tags |-> removed.delta.removed_tags,
                  added_links |-> added.added_links,
                  removed_links |-> removed.delta.removed_links]
    IN  Applied(r.idx,
                (IF r.ok THEN <<>> ELSE <<ErrorEvent(op.to, r.err)>>)
                    \o <<Renamed(op.from, op.to, op.cause, delta)>>,
                "none", UpResult(r))

\* the body of `for op in ops`
ApplyOne(idx, op, d1, d2) ==
    CASE op.type = "Upsert" -> ApplyUpsert(idx, op, d1, d2)
      [] op.type = "Remove" -> ApplyRemove(idx, op)
      [] op.type = "Rename" -> ApplyRename(idx, op, d2)

\* an op that reported an error ends the loop
NextOp_StopsOnError(i, evs, n) ==
    IF \E k \in DOMAIN evs : evs[k].type = "Error" THEN n + 1 ELSE i + 1

\* the position of the op the loop takes up after the op at i pushed evs
NextOp(i, evs, n) == i + 1

-----------------------------------------------------------------------------
(* The watcher at work: the filesystem changes, notify reports each change *)
(* and the watch loop drains and applies what it has received.             *)

\* the file or directory did not exist before a write creates it
WriteKind(d, p) == IF d[p].type = "none" THEN "Create" ELSE "Modify(Data)"

Changed(d, evs) ==
    /\ fsops < MaxFsOps
    /\ disk' = d
    /\ fsops' = fsops + 1
    /\ pending' = pending \o evs

FsWrite(p, v) ==
    /\ CanWrite(disk, p)
    /\ Changed(DiskWrite(disk, p, v), <<Event(WriteKind(disk, p), <<Abs(p)>>)>>)
    /\ UNCHANGED <<index, call, before, batch, pc, ops, ix, out, saw>>
    /\ UNCHANGED <<loopVars, castVars>>

FsMkdir(p) ==
    /\ CanMkdir(disk, p)
    /\ Changed(DiskMkdir(disk, p), <<Event("Create", <<Abs(p)>>)>>)
    /\ UNCHANGED <<index, call, before, batch, pc, ops, ix, out, saw>>
    /\ UNCHANGED <<loopVars, castVars>>

FsRemove(p) ==
    /\ CanRemove(disk, p)
    /\ Changed(DiskRemove(disk, p), <<Event("Remove", <<Abs(p)>>)>>)
    /\ UNCHANGED <<index, call, before, batch, pc, ops, ix, out, saw>>
    /\ UNCHANGED <<loopVars, castVars>>

FsChmod(p) ==
    /\ CanChmod(disk, p)
    /\ Changed(DiskChmod(disk, p), <<Event("Modify(Metadata)", <<Abs(p)>>)>>)
    /\ UNCHANGED <<index, call, before, batch, pc, ops, ix, out, saw>>
    /\ UNCHANGED <<loopVars, castVars>>

\* a file is read (by anyone, the indexer included): notify reports an access
FsRead(p) ==
    /\ Stat(disk, p).err = "none" /\ Stat(disk, p).is_file
    /\ Changed(disk, <<Event("Access", <<Abs(p)>>)>>)
    /\ UNCHANGED <<index, call, before, batch, pc, ops, ix, out, saw>>
    /\ UNCHANGED <<loopVars, castVars>>

\* notify reports a rename as one event with both paths, or (where the
\* backend cannot pair them) as one event for each path
RenameEvents(p, q, paired) ==
    IF paired THEN <<Event("Modify(Name(Both))", <<Abs(p), Abs(q)>>)>>
    ELSE <<Event("Modify(Name(From))", <<Abs(p)>>), Event("Modify(Name(To))", <<Abs(q)>>)>>

FsRename(p, q, paired) ==
    /\ CanRename(disk, p, q)
    /\ Changed(DiskRename(disk, p, q), RenameEvents(p, q, paired))
    /\ UNCHANGED <<index, call, before, batch, pc, ops, ix, out, saw>>
    /\ UNCHANGED <<loopVars, castVars>>

\* watch_loop, debounce arm: take the pending events, turn them into ops and
\* take the write lock
ApplyBegin ==
    /\ pc = "idle" /\ pending # <<>>
    /\ batch' = pending
    /\ pending' = <<>>
    /\ ops' = events_to_ops(pending)
    /\ ix' = 1 /\ out' = <<>> /\ saw' = <<>>
    /\ pc' = "busy"
    /\ UNCHANGED <<disk, fsops, index, call, before>>
    /\ UNCHANGED <<loopVars, castVars>>

Record(r) == [stat |-> r.stat, up |-> r.up, n |-> Len(r.evs)]

\* apply_events: one turn of `for op in ops`
ApplyOp ==
    /\ pc = "busy" /\ ix <= Len(ops)
    /\ LET r == ApplyOne(index, ops[ix], disk, disk)
       IN  /\ index' = r.idx
           /\ out' = out \o r.evs
           /\ saw' = Append(saw, Record(r))
           /\ ix' = NextOp(ix, r.evs, Len(ops))
    /\ UNCHANGED <<disk, fsops, call, before, pending, batch, pc, ops>>
    /\ UNCHANGED <<loopVars, castVars>>

\* apply_events: one turn of `for op in ops` for an Upsert whose file is
\* deleted after the op's own metadata call and before upsert_path runs
ApplyOpRaced ==
    /\ pc = "busy" /\ ix <= Len(ops)
    /\ ops[ix].type = "Upsert"
    /\ StatKind(Stat(disk, ops[ix].path)) = "file"
    /\ CanRemove(disk, ops[ix].path)
    /\ Changed(DiskRemove(disk, ops[ix].path), <<Event("Remove", <<Abs(ops[ix].path)>>)>>)
    /\ LET r == ApplyOne(index, ops[ix], disk, disk')
       IN  /\ index' = r.idx
           /\ out' = out \o r.evs
           /\ saw' = Append(saw, Record(r))
           /\ ix' = NextOp(ix, r.evs, Len(ops))
    /\ UNCHANGED <<call, before, batch, pc, ops>>
    /\ UNCHANGED <<loopVars, castVars>>

\* apply_events returns Ok(out); watch_loop broadcasts the events and goes
\* back to waiting
ApplyEnd ==
    /\ pc = "busy" /\ ix > Len(ops)
    /\ pc' = "idle"
    /\ batch' = <<>>
    /\ ops' = <<>> /\ ix' = 1 /\ out' = <<>> /\ saw' = <<>>
    /\ UNCHANGED <<disk, fsops, index, call, before, pending>>
    /\ UNCHANGED <<loopVars, castVars>>

Next ==
    \/ \E p \in Paths : \E v \in WritableVersions(p) : FsWrite(p, v)
    \/ \E p \in Paths : FsMkdir(p)
    \/ \E p \in Paths : FsRemove(p)
    \/ \E p \in Paths : FsChmod(p)
    \/ \E p \in Paths : FsRead(p)
    \/ \E p, q \in Paths : \E paired \in BOOLEAN : FsRename(p, q, paired)
    \/ ApplyBegin
    \/ ApplyOp
    \/ ApplyOpRaced
    \/ ApplyEnd

Spec == Init /\ [][Next]_vars

-----------------------------------------------------------------------------
(* Properties of the watcher (Spec) *)

\* the step is one turn of apply_events' loop, for the op at ix
OpStep == pc = "busy" /\ pc' = "busy" /\ Len(saw') = Len(saw) + 1

\* the events the step pushed
NewEvents == SubSeq(out', Len(out) + 1, Len(out'))

\* the step is the return of apply_events
ReturnStep == pc = "busy" /\ pc' = "idle"

RECURSIVE Before(_, _)
\* the number of events pushed by the ops before the op at i
Before(s, i) == IF i <= 1 THEN 0 ELSE Before(s, i - 1) + s[i - 1].n

\* the events pushed by the op at i
EventsOf(i) == SubSeq(out, Before(saw, i) + 1, Before(saw, i) + saw[i].n)

OpPaths(op) == IF op.type = "Rename" THEN {op.from, op.to} ELSE {op.path}

\* C6 as stated: when apply_events has applied a batch without an error and
\* nothing more is pending, every FileMeta of the index is of a file on disk.
C6_NoMetaWithoutFile ==
    [][(/\ ReturnStep /\ pending = <<>>
        /\ \A i \in DOMAIN out : out[i].type # "Error") =>
        \A p \in DOMAIN index.files : disk[p].type = "file"]_vars

\* C7 as stated: the ops of one batch are about pairwise different paths.
C7_OneOpPerPath ==
    pc = "busy" =>
        \A i, j \in DOMAIN ops : i < j => OpPaths(ops[i]) \cap OpPaths(ops[j]) = {}

\* C8: a Rename op, in one step under the write lock, pushes exactly one
\* Renamed{from, to} event (after the Error event of a failed upsert, if any);
\* its delta has the sets remove_path(from) removed and the sets
\* upsert_path(to) added; afterwards `from` has no entry in the index.
C8_RenameOp ==
    [][(OpStep /\ ops[ix].type = "Rename") =>
        LET op == ops[ix]
            new == NewEvents
            ev == new[Len(new)]
        IN  /\ Len(new) \in {1, 2}
            /\ \A k \in 1..(Len(new) - 1) : new[k].type = "Error"
            /\ ev.type = "Renamed" /\ ev.from = op.from /\ ev.to = op.to
            /\ ev.cause = op.cause
            /\ ev.delta.removed_tags = OldSet(index.file_tags, op.from)
            /\ ev.delta.removed_links = OldSet(index.file_links, op.from)
            /\ ev.delta.added_tags =
                  OldSet(index'.file_tags, op.to) \ OldSet(index.file_tags, op.to)
            /\ ev.delta.added_links =
                  OldSet(index'.file_links, op.to) \ OldSet(index.file_links, op.to)
            /\ op.from \notin DOMAIN index'.files
            /\ op.from \notin DOMAIN index'.notes
            /\ op.from \notin DOMAIN index'.file_tags
            /\ op.from \notin DOMAIN index'.file_links
            /\ \A t \in DOMAIN index'.tags : op.from \notin index'.tags[t]]_vars

\* a Rename op has just moved a tagged, linked note to its new path
C8_Witness ==
    /\ pc = "busy" /\ out # <<>>
    /\ LET ev == out[Len(out)]
       IN  /\ ev.type = "Renamed"
           /\ ev.delta.removed_tags # {} /\ ev.delta.added_tags # {}
           /\ ev.delta.removed_links # {} /\ ev.delta.added_links # {}
           /\ ev.from \notin DOMAIN index.files
           /\ ev.to \in DOMAIN index.notes

\* the op at i met an error: its metadata call failed (other than NotFound),
\* or its upsert_path failed and the failure is not demoted to a removal
OpFailed(i) ==
    \/ saw[i].stat \notin {"none", "file", "dir", "NotFound"}
    \/ /\ ops[i].type = "Upsert" /\ saw[i].up \notin {"none", "Ok", "NotFound"}
    \/ /\ ops[i].type = "Rename" /\ saw[i].up \notin {"none", "Ok"}

\* the path an op's error is reported for
ErrorPath(op) == IF op.type = "Rename" THEN op.to ELSE op.path

\* C9: when apply_events returns, every op of the batch has been applied,
\* those after a failed op too; a failed op has pushed an Error event with
\* the op's path, every op other than an Upsert of a directory has pushed an
\* event, and `out` holds the events of all ops.
C9_ErrorsDoNotAbort ==
    [][ReturnStep =>
        /\ Len(saw) = Len(ops)
        /\ Len(out) = Before(saw, Len(saw) + 1)
        /\ \A i \in DOMAIN ops :
              /\ OpFailed(i) =>
                    \E k \in DOMAIN EventsOf(i) :
                        /\ EventsOf(i)[k].type = "Error"
                        /\ EventsOf(i)[k].path = Some(ErrorPath(ops[i]))
              /\ saw[i].n = 0 => (ops[i].type = "Upsert" /\ saw[i].stat = "dir")]_vars

\* a batch whose first op failed and whose later op indexed a file
C9_Witness ==
    /\ pc = "busy" /\ ix > Len(ops) /\ Len(saw) = Len(ops)
    /\ \E i, j \in DOMAIN ops :
          /\ i < j /\ OpFailed(i) /\ ~OpFailed(j)
          /\ saw[j].n = 1 /\ EventsOf(j)[1].type = "Indexed"
          /\ EventsOf(j)[1].path \in DOMAIN index.files

\* the file of the Upsert op at ix is missing, at the op's metadata call or
\* when upsert_path looks for it
UpsertFindsNothing ==
    \/ StatKind(Stat(disk, ops[ix].path)) = "NotFound"
    \/ /\ StatKind(Stat(disk, ops[ix].path)) = "file"
       /\ StatKind(Stat(disk', ops[ix].path)) = "NotFound"

\* C10 as stated: an Upsert op whose path is missing or is not a regular file
\* pushes a Removed event for the path.
C10_AsStated ==
    [][(/\ OpStep /\ ops[ix].type = "Upsert"
        /\ (UpsertFindsNothing \/ StatKind(Stat(disk, ops[ix].path)) = "dir")) =>
        (/\ Len(NewEvents) = 1
         /\ NewEvents[1].type = "Removed"
         /\ NewEvents[1].path = ops[ix].path)]_vars

\* C10: an Upsert op whose path is missing pushes one event, a Removed event
\* for the path with the path's prior sets, and the path leaves the index; an
\* Upsert op whose path is a directory pushes no event and leaves the index
\* as it is.
C10_UpsertOfMissingOrDir ==
    [][(OpStep /\ ops[ix].type = "Upsert") =>
        LET op == ops[ix]
        IN  /\ UpsertFindsNothing =>
                /\ Len(NewEvents) = 1
                /\ NewEvents[1].type = "Removed"
                /\ NewEvents[1].path = op.path
                /\ NewEvents[1].cause = op.cause
                /\ NewEvents[1].delta.removed_tags = OldSet(index.file_tags, op.path)
                /\ NewEvents[1].delta.removed_links = OldSet(index.file_links, op.path)
                /\ op.path \notin DOMAIN index'.files
            /\ StatKind(Stat(disk, op.path)) = "dir" =>
                /\ NewEvents = <<>>
                /\ index' = index]_vars

\* an Upsert op found its indexed, tagged note missing and pushed Removed
C10_Witness ==
    /\ pc = "busy"
    /\ \E i \in DOMAIN saw :
          /\ ops[i].type = "Upsert" /\ saw[i].stat = "NotFound" /\ saw[i].n = 1
          /\ EventsOf(i)[1].type = "Removed"
          /\ EventsOf(i)[1].delta.removed_tags # {}

-----------------------------------------------------------------------------
(* Further properties of the index under direct calls (SpecIndex) *)

\* C11 as stated: upsert_path of an indexed path whose file is missing on disk
\* succeeds, leaves the index as remove_path would and returns remove_path's
\* delta.
C11_MissingActsAsRemove ==
    [][(/\ Called("upsert_path")
        /\ call'.path \in DOMAIN index.files
        /\ Stat(disk, call'.path).err = "NotFound") =>
        (/\ call'.ok
         /\ index' = remove_path(index, call'.path).idx
         /\ call'.delta = remove_path(index, call'.path).delta)]_vars

\* C20: notes[p] exists iff files[p] exists with kind Markdown or Canvas, and
\* files, file_tags and file_links have the same key set.
C20_NotesAndKeySets ==
    /\ \A p \in Paths :
          p \in DOMAIN index.notes <=>
              (p \in DOMAIN index.files /\ index.files[p].kind \in {"Markdown", "Canvas"})
    /\ DOMAIN index.file_tags = DOMAIN index.files
    /\ DOMAIN index.file_links = DOMAIN index.files

\* a note has just been removed from an index that holds an attachment and
\* another note
C20_Witness ==
    /\ call.op = "remove_path" /\ call.path \in DOMAIN before.notes
    /\ <<"p.png">> \in DOMAIN index.files
    /\ index.files[<<"p.png">>].kind = "Attachment"
    /\ index.notes # EmptyMap

-----------------------------------------------------------------------------
(* Further properties of the watcher (Spec) *)

\* the event is an Access event or a metadata-only Modify event
Dropped(ev) == watch_kind_from_event_kind(ev.kind) \in {"Access", "ModifyMetadata"}

\* the events of a batch that are neither
Kept(b) == SelectSeq(b, LAMBDA ev : ~Dropped(ev))

\* C12: the ops of a batch are the ops of the batch without its Access and
\* metadata-only Modify events, and no op's cause is of such a kind; while a
\* batch made only of such events is applied there is no op, the index does
\* not change and no VaultEvent is produced.
C12_AccessAndMetadataDropped ==
    [][/\ (pc = "idle" /\ pc' = "busy") =>
            /\ ops' = events_to_ops(Kept(pending))
            /\ \A i \in DOMAIN ops' :
                  ops'[i].cause.kind \notin {"Access", "ModifyMetadata"}
            /\ Kept(pending) = <<>> => ops' = <<>>
       /\ (pc = "busy" /\ Kept(batch) = <<>>) =>
            /\ ops = <<>>
            /\ index' = index
            /\ out = <<>> /\ out' = <<>>]_vars

\* a batch of an Access event and a metadata-only Modify event, and nothing
\* else, is being applied to an index that holds a note
C12_Witness ==
    /\ pc = "busy" /\ Kept(batch) = <<>> /\ ops = <<>>
    /\ \E i, j \in DOMAIN batch :
          batch[i].kind = "Access" /\ batch[j].kind = "Modify(Metadata)"
    /\ index.notes # EmptyMap

\* the arm of events_to_ops an event goes to
ArmOf(ev) ==
    IF Dropped(ev) THEN "none"
    ELSE IF watch_kind_from_event_kind(ev.kind) = "Rename" /\ Len(ev.paths) = 2
    THEN "Rename"
    ELSE IF ev.kind = "Remove" THEN "Remove"
    ELSE "Upsert"

\* the vault paths an event names
RelPaths(ev) ==
    {to_vault_path(ev.paths[k]).path :
        k \in {j \in DOMAIN ev.paths : to_vault_path(ev.paths[j]).some}}

\* the positions of the events of b that were merged into the Upsert or Remove op
MergedInto(op, b) ==
    {i \in DOMAIN b : ArmOf(b[i]) = op.type /\ op.path \in RelPaths(b[i])}

CauseAt(b, i) == cause_from_event_kind(b[i].kind)

\* the merged events of the highest rank
TopOf(op, b) ==
    {i \in MergedInto(op, b) :
        \A j \in MergedInto(op, b) :
            rank_cause(CauseAt(b, j)) <= rank_cause(CauseAt(b, i))}

\* C17 as stated: the cause of an Upsert or Remove op is the cause of a merged
\* event, no merged event ranks higher, and every merged event of the same
\* rank has that same cause (so the order of arrival does not matter).
C17_AsStated ==
    pc = "busy" =>
        \A k \in DOMAIN ops :
            ops[k].type \in {"Upsert", "Remove"} =>
                /\ \E i \in MergedInto(ops[k], batch) : CauseAt(batch, i) = ops[k].cause
                /\ \A i \in TopOf(ops[k], batch) : CauseAt(batch, i) = ops[k].cause

\* C17: the cause of an Upsert or Remove op has the highest rank among the
\* causes of the events merged into it, so its kind does not depend on the
\* order of arrival; it is the cause of the last merged event of that rank.
C17_HighestRankLastWins ==
    pc = "busy" =>
        \A k \in DOMAIN ops :
            ops[k].type \in {"Upsert", "Remove"} =>
                LET top == TopOf(ops[k], batch)
                    last == CHOOSE i \in top : \A j \in top : j <= i
                IN  /\ top # {}
                    /\ ops[k].cause = CauseAt(batch, last)
                    /\ \A i \in MergedInto(ops[k], batch) :
                          rank_cause(CauseAt(batch, i)) <= rank_cause(ops[k].cause)
                    /\ \A i \in top : CauseAt(batch, i).kind = ops[k].cause.kind

\* an op took its cause from an earlier event that outranks a later one
C17_Witness ==
    /\ pc = "busy"
    /\ \E k \in DOMAIN ops :
          /\ ops[k].type = "Upsert"
          /\ \E i, j \in MergedInto(ops[k], batch) :
                /\ i < j
                /\ rank_cause(CauseAt(batch, i)) > rank_cause(CauseAt(batch, j))
                /\ ops[k].cause = CauseAt(batch, i)

-----------------------------------------------------------------------------
(* The whole watch loop: notify's callback feeds raw_rx, watch_loop selects *)
(* between the shutdown signal, a raw event and the debounce timer, applies *)
(* a drained batch and broadcasts its events; shutdown() signals and joins. *)
(* The vault is kept small here: two note paths.                           *)

LoopPaths == { <<"a.md">>, <<"n", "a.md">> }

\* what notify's callback sends into raw_tx
RawOk(ev) == [ok |-> TRUE, ev |-> ev]

RawErr == [ok |-> FALSE, ev |-> Event("error", <<>>)]

\* VaultEvent::Error { path: None, .. }
NotifyErrorEvent == [type |-> "Error", path |-> None, error |-> "notify"]

\* events.send(ev): the event joins the channel behind those sent before
Broadcast(ch, ev, b) == Append(ch, [ev |-> ev, b |-> b])

\* the events of a batch are taken from the end of `applied`
NextToSend_FromEnd(o, i) == o[Len(o) - i + 1]

\* `for ev in applied`: the events are sent first to last
NextToSend(o, i) == o[i]

\* shutdown() returns without waiting for the loop
Joined_NoWait(p) == TRUE

\* `handle.await`: the watch task has finished
Joined(p) == p = "done"

\* the timer is left running when an event arrives while it is armed
TimerAfterRecv_NotReset(a, l) == IF a THEN l ELSE Debounce

\* debounce_timer.reset(now + debounce)
TimerAfterRecv(a, l) == Debounce

\* the filesystem changes and notify's callback sends the events
Reported(d, evs) ==
    /\ watching
    /\ fsops < MaxLoopOps
    /\ disk' = d
    /\ fsops' = fsops + 1
    /\ raw' = raw \o [i \in 1..Len(evs) |-> RawOk(evs[i])]
    /\ UNCHANGED <<index, call, before, pending, batch, pc, ops, ix, out, saw>>
    /\ UNCHANGED <<watching, armed, left, quiet, shutdown, sd, sx, sent, nb>>
    /\ UNCHANGED castVars

NotifyWrite(p, v) ==
    /\ CanWrite(disk, p)
    /\ Reported(DiskWrite(disk, p, v), <<Event(WriteKind(disk, p), <<Abs(p)>>)>>)

NotifyRemove(p) ==
    /\ CanRemove(disk, p)
    /\ Reported(DiskRemove(disk, p), <<Event("Remove", <<Abs(p)>>)>>)

NotifyRename(p, q, paired) ==
    /\ CanRename(disk, p, q)
    /\ Reported(DiskRename(disk, p, q), RenameEvents(p, q, paired))

\* the notify backend reports an error instead of an event
NotifyFails ==
    /\ watching
    /\ fsops < MaxLoopOps
    /\ fsops' = fsops + 1
    /\ raw' = Append(raw, RawErr)
    /\ UNCHANGED <<disk, index, call, before, pending, batch, pc, ops, ix, out, saw>>
    /\ UNCHANGED <<watching, armed, left, quiet, shutdown, sd, sx, sent, nb>>
    /\ UNCHANGED castVars

\* time passes while the debounce timer is armed
Tick ==
    /\ armed
    /\ left > 0 \/ quiet < Debounce
    /\ left' = IF left > 0 THEN left - 1 ELSE 0
    /\ quiet' = IF quiet < Debounce THEN quiet + 1 ELSE quiet
    /\ UNCHANGED <<disk, fsops, index, call, before, pending, batch, pc, ops, ix, out, saw>>
    /\ UNCHANGED <<raw, watching, armed, shutdown, sd, sx, sent, nb>>
    /\ UNCHANGED castVars

\* watch_loop, top of the loop: `if *shutdown_rx.borrow() { break; }`
LoopTop ==
    /\ pc = "top"
    /\ pc' = IF shutdown THEN "done" ELSE "idle"
    /\ UNCHANGED <<disk, fsops, index, call, before, pending, batch, ops, ix, out, saw>>
    /\ UNCHANGED <<loopVars, castVars>>

\* watch_loop, select: shutdown_rx.changed()
SelectShutdown ==
    /\ pc = "idle" /\ shutdown
    /\ pc' = "done"
    /\ UNCHANGED <<disk, fsops, index, call, before, pending, batch, ops, ix, out, saw>>
    /\ UNCHANGED <<loopVars, castVars>>

\* watch_loop, select: raw_rx.recv() returns a raw event or a notify error
Recv ==
    /\ pc = "idle" /\ raw # <<>>
    /\ raw' = Tail(raw)
    /\ IF Head(raw).ok
       THEN /\ pending' = Append(pending, Head(raw).ev)
            /\ armed' = TRUE
            /\ left' = TimerAfterRecv(armed, left)
            /\ quiet' = 0
            /\ sent' = sent
       ELSE /\ sent' = Broadcast(sent, NotifyErrorEvent, nb)
            /\ UNCHANGED <<pending, armed, left, quiet>>
    /\ pc' = "top"
    /\ UNCHANGED <<disk, fsops, index, call, before, batch, ops, ix, out, saw>>
    /\ UNCHANGED <<watching, shutdown, sd, sx, nb>>
    /\ UNCHANGED castVars

\* watch_loop, select: raw_rx.recv() returns None, the watcher is gone
RecvClosed ==
    /\ pc = "idle" /\ raw = <<>> /\ ~watching
    /\ pc' = "done"
    /\ UNCHANGED <<disk, fsops, index, call, before, pending, batch, ops, ix, out, saw>>
    /\ UNCHANGED <<loopVars, castVars>>

\* watch_loop, select: the debounce timer fires; the pending events are
\* drained and apply_events starts on them
DebounceFires ==
    /\ pc = "idle" /\ armed /\ left = 0
    /\ armed' = FALSE
    /\ IF pending = <<>>
       THEN /\ pc' = "top"
            /\ UNCHANGED <<pending, batch, ops, ix, out, saw, nb>>
       ELSE /\ batch' = pending
            /\ pending' = <<>>
            /\ ops' = events_to_ops(pending)
            /\ ix' = 1 /\ out' = <<>> /\ saw' = <<>>
            /\ nb' = nb + 1
            /\ pc' = "busy"
    /\ UNCHANGED <<disk, fsops, index, call, before>>
    /\ UNCHANGED <<raw, watching, left, quiet, shutdown, sd, sx, sent>>
    /\ UNCHANGED castVars

\* apply_events returns Ok(out) and releases the write lock
ApplyReturn ==
    /\ pc = "busy" /\ ix > Len(ops)
    /\ pc' = "send"
    /\ sx' = 1
    /\ UNCHANGED <<disk, fsops, index, call, before, pending, batch, ops, ix, out, saw>>
    /\ UNCHANGED <<raw, watching, armed, left, quiet, shutdown, sd, sent, nb>>
    /\ UNCHANGED castVars

\* the channel takes a value only while every receiver has room for it
SendReady_WhenRoom(ch, r) ==
    \A s \in DOMAIN r : r[s].alive => Len(ch) - r[s].next < Capacity

\* broadcast::Sender::send does not wait for any receiver
SendReady(ch, r) == TRUE

\* watch_loop: one turn of `for ev in applied { let _ = events.send(ev); }`
SendOne ==
    /\ pc = "send" /\ sx <= Len(out)
    /\ SendReady(sent, rx)
    /\ sent' = Broadcast(sent, NextToSend(out, sx), nb)
    /\ sx' = sx + 1
    /\ UNCHANGED <<disk, fsops, index, call, before, pending, batch, pc, ops, ix, out, saw>>
    /\ UNCHANGED <<raw, watching, armed, left, quiet, shutdown, sd, nb>>
    /\ UNCHANGED castVars

\* watch_loop: the batch is done, back to the top of the loop
SendDone ==
    /\ pc = "send" /\ sx > Len(out)
    /\ pc' = "top"
    /\ batch' = <<>>
    /\ ops' = <<>> /\ ix' = 1 /\ out' = <<>> /\ saw' = <<>>
    /\ sx' = 1
    /\ UNCHANGED <<disk, fsops, index, call, before, pending>>
    /\ UNCHANGED <<raw, watching, armed, left, quiet, shutdown, sd, sent, nb>>
    /\ UNCHANGED castVars

\* VaultService::shutdown: shutdown_tx.send(true); self.watcher.take()
Shutdown ==
    /\ sd = "none"
    /\ shutdown' = TRUE
    /\ watching' = FALSE
    /\ sd' = "joining"
    /\ UNCHANGED <<disk, fsops, index, call, before, pending, batch, pc, ops, ix, out, saw>>
    /\ UNCHANGED <<raw, armed, left, quiet, sx, sent, nb>>
    /\ UNCHANGED castVars

\* VaultService::shutdown: handle.await returns, and so does shutdown()
Join ==
    /\ sd = "joining" /\ Joined(pc)
    /\ sd' = "returned"
    /\ UNCHANGED <<disk, fsops, index, call, before, pending, batch, pc, ops, ix, out, saw>>
    /\ UNCHANGED <<raw, watching, armed, left, quiet, shutdown, sx, sent, nb>>
    /\ UNCHANGED castVars

\* the steps of the watch loop task
LoopStep ==
    \/ LoopTop
    \/ SelectShutdown
    \/ Recv
    \/ RecvClosed
    \/ DebounceFires
    \/ ApplyOp
    \/ ApplyReturn
    \/ SendOne
    \/ SendDone

NextLoop ==
    \/ \E p \in LoopPaths : \E v \in WritableVersions(p) : NotifyWrite(p, v)
    \/ \E p \in LoopPaths : NotifyRemove(p)
    \/ \E p, q \in LoopPaths : \E paired \in BOOLEAN : NotifyRename(p, q, paired)
    \/ NotifyFails
    \/ Tick
    \/ LoopStep
    \/ Shutdown
    \/ Join

SpecLoop == Init /\ [][NextLoop]_vars

\* the same with fewer changes, for what is checked of its infinite behaviours
NextLive ==
    \/ /\ fsops < MaxLiveOps
       /\ \E p \in LoopPaths : \E v \in WritableVersions(p) : NotifyWrite(p, v)
    \/ /\ fsops < MaxLiveOps
       /\ \E p \in LoopPaths : NotifyRemove(p)
    \/ /\ fsops < MaxLiveOps
       /\ \E p, q \in LoopPaths : \E paired \in BOOLEAN : NotifyRename(p, q, paired)
    \/ /\ fsops < MaxLiveOps
       /\ NotifyFails
    \/ Tick
    \/ LoopStep
    \/ Shutdown
    \/ Join

\* the loop task and the caller of shutdown() are scheduled again and again
LiveLoop ==
    Init /\ [][NextLive]_vars /\ WF_vars(LoopStep) /\ WF_vars(Join)

-----------------------------------------------------------------------------
(* Properties of the watch loop (SpecLoop, LiveLoop) *)

\* the events of batch b broadcast so far, in the order of their broadcast
BatchSent(b) ==
    SelectSeq(sent, LAMBDA x : x.b = b /\ x.ev # NotifyErrorEvent)

\* the positions in b of the rename events that became Rename ops
RenamePositions(b) ==
    SelectSeq([i \in 1..Len(b) |-> i],
              LAMBDA i : /\ ArmOf(b[i]) = "Rename"
                         /\ to_vault_path(b[i].paths[1]).some
                         /\ to_vault_path(b[i].paths[2]).some)

\* the position in the batch of the first event that went into the op at k
FirstOf(k) ==
    IF ops[k].type = "Rename"
    THEN RenamePositions(batch)[Cardinality({j \in 1..k : ops[j].type = "Rename"})]
    ELSE CHOOSE i \in MergedInto(ops[k], batch) :
            \A j \in MergedInto(ops[k], batch) : i <= j

\* the paths a VaultEvent is about
EventPaths(ev) ==
    IF ev.type = "Renamed" THEN {ev.from, ev.to}
    ELSE IF ev.type = "Error" THEN {ev.path.path}
    ELSE {ev.path}

\* C13: the ops of a batch are in the order of the first event that went
\* into each; the events of the batch are in the order of its ops; they are
\* broadcast in that order, after apply_events has returned; and an event of
\* a batch is broadcast before every event of a later batch.
C13_BroadcastOrder ==
    /\ \A i, j \in DOMAIN sent : i < j => sent[i].b <= sent[j].b
    /\ pc \in {"busy", "send"} =>
          /\ \A k, l \in DOMAIN ops : k < l => FirstOf(k) < FirstOf(l)
          /\ \A k \in DOMAIN saw :
                \A e \in DOMAIN EventsOf(k) :
                    EventPaths(EventsOf(k)[e]) \subseteq OpPaths(ops[k])
    /\ pc = "busy" => BatchSent(nb) = <<>>
    /\ pc = "send" =>
          /\ Len(out) = Before(saw, Len(saw) + 1)
          /\ BatchSent(nb) = [i \in 1..(sx - 1) |-> [ev |-> out[i], b |-> nb]]

\* the two events of one batch were broadcast in the order of its ops, and an
\* event of a later batch after them
C13_Witness ==
    \E i, j, k \in DOMAIN sent :
        /\ i < j /\ j < k
        /\ sent[i].b = sent[j].b /\ sent[j].b < sent[k].b
        /\ sent[i].ev # NotifyErrorEvent /\ sent[j].ev # NotifyErrorEvent
        /\ sent[k].ev # NotifyErrorEvent
        /\ EventPaths(sent[i].ev) # EventPaths(sent[j].ev)

\* the step drains the pending events
DrainStep == pc = "idle" /\ pc' = "busy"

\* the step receives a raw event
RecvStep == pc = "idle" /\ raw # <<>> /\ raw' = Tail(raw) /\ Head(raw).ok

\* C14: a received raw event arms the debounce timer and sets it to a full
\* window; pending grows only by a received event, and is emptied only by the
\* drain, which takes all of it; the drain happens only when a full window
\* has passed since the last received event.
C14_Debounce ==
    [][/\ RecvStep =>
            (armed' /\ left' = Debounce /\ pending' = Append(pending, Head(raw).ev))
       /\ DrainStep =>
            /\ armed /\ quiet >= Debounce
            /\ pending # <<>> /\ batch' = pending /\ pending' = <<>>
            /\ ~armed'
       /\ pending' # pending => (RecvStep \/ DrainStep)
       /\ (armed <=> pending # <<>>)]_vars

\* a batch of two events is drained, a full window after the last of them
C14_Witness ==
    /\ pc = "busy" /\ Len(batch) >= 2 /\ quiet = Debounce /\ ~armed
    /\ raw # <<>>

\* C16: the loop exits only at the top of the loop or in its select, and
\* only when shutdown is signalled or the watcher is gone, so a batch being
\* applied is applied and broadcast to its end; shutdown() returns only when
\* the loop has exited; nothing is broadcast after it has returned; and once
\* shutdown() has sent the signal it returns.
C16_ShutdownTerminates ==
    /\ [][/\ (pc # "done" /\ pc' = "done") =>
                (pc \in {"top", "idle"} /\ (shutdown \/ ~watching))
          /\ (pc = "busy" /\ pc' # "busy") => (ix > Len(ops) /\ pc' = "send")
          /\ (pc = "send" /\ pc' # "send") => (sx > Len(out) /\ pc' = "top")
          /\ (sd # "returned" /\ sd' = "returned") => pc = "done"
          /\ sd = "returned" => (sent' = sent /\ pc' = "done")]_vars
    /\ (sd = "joining") ~> (sd = "returned")

\* shutdown() has returned after a batch was broadcast, with raw events left
\* that the loop never received
C16_Witness ==
    /\ sd = "returned" /\ pc = "done"
    /\ sent # <<>> /\ raw # <<>>

-----------------------------------------------------------------------------
(* The broadcast channel and its receivers, the persistent store that       *)
(* follows the events (handle_sqlite), and build_index.  The debounce timer *)
(* is left out here: the pending events are drained at any time.  The walk  *)
(* of build_with_schema is taken as one look at the tree.                   *)

\* the number of values the channel has sent and no longer retains
Oldest(ch) == IF Len(ch) > Capacity THEN Len(ch) - Capacity ELSE 0

\* RecvError::Lagged(n)
Lagged(n) == [type |-> "Lagged", n |-> n]

\* broadcast::Receiver::recv of a receiver that has read `next` values
RecvResult(ch, next) ==
    IF next < Oldest(ch) THEN Lagged(Oldest(ch) - next) ELSE ch[next + 1].ev

\* how far the receiver has read after that recv
RecvNext(ch, next) == IF next < Oldest(ch) THEN Oldest(ch) ELSE next + 1

StoreCall(op, path) == [op |-> op, path |-> path]

\* handle_sqlite: the store calls made for one received event
StoreCalls(ev) ==
    CASE ev.type = "Indexed" -> <<StoreCall("upsert_path", ev.path)>>
      [] ev.type = "Removed" -> <<StoreCall("remove_path", ev.path)>>
      [] ev.type = "Renamed" ->
            <<StoreCall("remove_path", ev.from), StoreCall("upsert_path", ev.to)>>
      [] OTHER -> <<>>

\* a subscriber's loop: rx.recv()
UiRecv ==
    /\ rx["ui"].alive /\ rx["ui"].next < Len(sent)
    /\ got' = Append(got, RecvResult(sent, rx["ui"].next))
    /\ rx' = [rx EXCEPT !["ui"].next = RecvNext(sent, rx["ui"].next)]
    /\ UNCHANGED <<disk, fsops, index, call, before, pending, batch, pc, ops, ix, out, saw>>
    /\ UNCHANGED <<loopVars, store, built, bstate>>

\* handle_sqlite's loop: rx.recv(), then the store calls for the event (an
\* upsert takes index_snapshot(), which waits for the write lock to be free);
\* an Err from recv() is skipped with `continue`
StoreRecv ==
    /\ rx["store"].alive /\ rx["store"].next < Len(sent)
    /\ LET r == RecvResult(sent, rx["store"].next)
       IN  /\ r.type \in {"Indexed", "Renamed"} => pc # "busy"
           /\ store' = IF r.type = "Lagged" THEN store ELSE store \o StoreCalls(r)
    /\ rx' = [rx EXCEPT !["store"].next = RecvNext(sent, rx["store"].next)]
    /\ UNCHANGED <<disk, fsops, index, call, before, pending, batch, pc, ops, ix, out, saw>>
    /\ UNCHANGED <<loopVars, got, built, bstate>>

\* a receiver is dropped
DropReceiver(s) ==
    /\ rx[s].alive
    /\ rx' = [rx EXCEPT ![s].alive = FALSE]
    /\ UNCHANGED <<disk, fsops, index, call, before, pending, batch, pc, ops, ix, out, saw>>
    /\ UNCHANGED <<loopVars, got, store, built, bstate>>

\* the files the walk of build_with_schema upserts
IndexableFiles(d) ==
    {p \in FilePaths :
        Stat(d, p).err = "none" /\ Stat(d, p).is_file /\ is_indexable_rel(p)}

RECURSIVE BuildFrom(_, _, _)
\* the loop of build_with_schema: upsert_path for each file, `?` on its error
BuildFrom(idx, d, todo) ==
    IF todo = {} THEN Ok(idx, EmptyDelta)
    ELSE LET p == CHOOSE x \in todo : TRUE
             r == upsert_path(idx, p, Stat(d, p), ReadToString(d, p))
         IN  IF r.ok THEN BuildFrom(r.idx, d, todo \ {p}) ELSE r

\* VaultIndex::build_with_schema
build_with_schema(d) == BuildFrom(EmptyIndex, d, IndexableFiles(d))

Overlay(f, g) ==
    [k \in DOMAIN f \cup DOMAIN g |-> IF k \in DOMAIN g THEN g[k] ELSE f[k]]

\* the built entries are added to the live index
Replace_Adds(idx, b) ==
    [files |-> Overlay(idx.files, b.files),
     notes |-> Overlay(idx.notes, b.notes),
     file_tags |-> Overlay(idx.file_tags, b.file_tags),
     file_links |-> Overlay(idx.file_links, b.file_links),
     tags |-> Overlay(idx.tags, b.tags)]

\* build_index: `*guard = built`
Replace(idx, b) == b

\* build_index: the blocking build task; its error ends build_index
BuildScan ==
    /\ bstate = "none"
    /\ LET r == build_with_schema(disk)
       IN  IF r.ok THEN built' = r.idx /\ bstate' = "scanned"
           ELSE built' = built /\ bstate' = "failed"
    /\ UNCHANGED <<disk, fsops, index, call, before, pending, batch, pc, ops, ix, out, saw>>
    /\ UNCHANGED <<loopVars, rx, got, store>>

\* build_index: take the write lock and replace the index
BuildSwap ==
    /\ bstate = "scanned" /\ pc # "busy"
    /\ index' = Replace(index, built)
    /\ bstate' = "swapped"
    /\ UNCHANGED <<disk, fsops, call, before, pending, batch, pc, ops, ix, out, saw>>
    /\ UNCHANGED <<loopVars, rx, got, store, built>>

NextCast ==
    \/ /\ fsops < MaxCastOps
       /\ \E p \in LoopPaths : \E v \in WritableVersions(p) : FsWrite(p, v)
    \/ /\ fsops < MaxCastOps
       /\ \E p \in LoopPaths : FsRemove(p)
    \/ /\ fsops < MaxCastOps
       /\ \E p, q \in LoopPaths : \E paired \in BOOLEAN : FsRename(p, q, paired)
    \/ ApplyBegin
    \/ ApplyOp
    \/ ApplyReturn
    \/ SendOne
    \/ SendDone
    \/ LoopTop
    \/ UiRecv
    \/ StoreRecv
    \/ \E s \in DOMAIN rx : DropReceiver(s)
    \/ BuildScan
    \/ BuildSwap

SpecCast == Init /\ [][NextCast]_vars

-----------------------------------------------------------------------------
(* Properties of the broadcast channel, the store and build_index (SpecCast) *)

RECURSIVE CallsFor(_, _)
\* the store calls handle_sqlite makes for the first n broadcast events
CallsFor(ch, n) ==
    IF n = 0 THEN <<>> ELSE CallsFor(ch, n - 1) \o StoreCalls(ch[n].ev)

RECURSIVE Accounted(_, _, _)
\* where a receiver stands in ch after the results g[1..i], each an event of
\* ch in its place or a Lagged(n) for n events passed over; -1 if they do not fit
Accounted(g, i, ch) ==
    IF i = 0 THEN 0
    ELSE LET at == Accounted(g, i - 1, ch)
         IN  IF at < 0 THEN -1
             ELSE IF g[i].type = "Lagged"
                  THEN IF g[i].n > 0 /\ at + g[i].n <= Len(ch) THEN at + g[i].n ELSE -1
                  ELSE IF at < Len(ch) /\ g[i] = ch[at + 1].ev THEN at + 1 ELSE -1

SendStep == Len(sent') = Len(sent) + 1

SwapStep == bstate = "scanned" /\ bstate' = "swapped"

\* C15: build_index replaces the live index in one step taken while the
\* watch loop does not hold the write lock, and right after that step the
\* index is exactly what the builder produced, whatever the watch loop applied
\* since the build; outside that step the index changes only under the watch
\* loop's write lock, so a reader (who needs the lock free) sees the previous
\* index or the built one.
C15_AtomicReplace ==
    [][ /\ SwapStep => (pc # "busy" /\ pc' = pc /\ index' = built)
        /\ (index' # index /\ ~SwapStep) => (pc = "busy" /\ bstate' = bstate)
        /\ (bstate = "none" /\ bstate' = "scanned") =>
                built' = build_with_schema(disk).idx ]_vars

\* the watch loop indexed a file after the build had looked at the tree, and
\* the replacement then put the builder's output in place
C15_Witness ==
    /\ bstate = "swapped" /\ index = built
    /\ \E p \in LoopPaths :
        /\ Stat(disk, p).err = "none" /\ Stat(disk, p).is_file
        /\ p \notin DOMAIN index.files
        /\ \E i \in 1..Len(sent) :
            sent[i].ev.type = "Indexed" /\ sent[i].ev.path = p

\* C18: while the store's subscriber runs, the store has been called for
\* every broadcast event the subscriber has passed, in broadcast order
\* (upsert_path for Indexed, remove_path for Removed, both for Renamed).
C18_StoreFollowsBroadcast ==
    rx["store"].alive => store = CallsFor(sent, rx["store"].next)

\* what every state of the channel and its receivers satisfies
ChannelOk ==
    /\ (pc = "send" /\ sx <= Len(out)) => ENABLED SendOne
    /\ Accounted(got, Len(got), sent) = rx["ui"].next
    /\ \A s \in DOMAIN rx :
        (rx[s].alive /\ rx[s].next < Len(sent) /\ rx[s].next >= Oldest(sent))
            => RecvResult(sent, rx[s].next) = sent[rx[s].next + 1].ev

\* what every step of the channel and its receivers satisfies
ChannelStep ==
    /\ SendStep => (index' = index /\ rx' = rx /\ pc' = "send")
    /\ \A s \in DOMAIN rx :
        rx'[s] # rx[s] =>
            /\ sent' = sent /\ index' = index /\ pc' = pc
            /\ \A t \in DOMAIN rx \ {s} : rx'[t] = rx[t]

\* C19: the watch loop can always broadcast its next event, whatever the
\* receivers are doing and when there is none; a broadcast changes neither
\* the index nor any receiver; a receiver's recv changes nothing of another
\* receiver, of the channel or of the index; a receiver that is not behind
\* the channel gets the next event; and what a receiver has got is the
\* broadcast events in order, with a Lagged(n) exactly where it passed over
\* n of them.
C19_SendNeverBlocks == []ChannelOk /\ [][ChannelStep]_vars

\* one subscriber was told it lagged while the other got every event, the
\* store was called for each, and the batches are in the index
C19_Witness ==
    /\ \E i \in 1..Len(got) : got[i].type = "Lagged"
    /\ rx["store"].alive /\ rx["store"].next = Len(sent)
    /\ store = CallsFor(sent, Len(sent))
    /\ Len(sent) > Capacity
    /\ index # EmptyIndex

-----------------------------------------------------------------------------
(* Library functions called on their own.  A string is the sequence of its  *)
(* characters (a path of the operating system: of its bytes); `call` holds  *)
(* the last call, its argument and what it returned.                        *)

\* the argument a library function is about to be called with
Input(op, arg) == [op |-> "input", for |-> op, arg |-> arg]

\* a call of a library function that touches nothing of the service
LibCall(c) ==
    /\ call' = c
    /\ UNCHANGED <<disk, fsops, index, before>>
    /\ UNCHANGED watchVars
    /\ UNCHANGED <<loopVars, castVars>>

RECURSIVE SplitOn(_, _)
\* str::split(sep)
SplitOn(s, sep) ==
    LET at == {i \in 1..Len(s) : s[i] = sep}
    IN  IF at = {} THEN <<s>>
        ELSE LET i == CHOOSE k \in at : \A j \in at : k <= j
             IN  <<SubSeq(s, 1, i - 1)>> \o SplitOn(SubSeq(s, i + 1, Len(s)), sep)

RECURSIVE JoinWith(_, _)
\* the parts with sep between them
JoinWith(parts, sep) ==
    IF Len(parts) = 0 THEN <<>>
    ELSE IF Len(parts) = 1 THEN parts[1]
    ELSE parts[1] \o <<sep>> \o JoinWith(Tail(parts), sep)

RECURSIVE StringsUpTo(_, _)
\* the strings over an alphabet of length at most n
StringsUpTo(alphabet, n) ==
    IF n = 0 THEN {<<>>}
    ELSE LET shorter == StringsUpTo(alphabet, n - 1)
         IN  shorter \cup {Append(s, c) : s \in shorter, c \in alphabet}

-----------------------------------------------------------------------------
(* VaultPath from a path of the operating system (src/src/vault.rs) *)

\* the length of the paths converted
MaxPathLen == 4

\* the bytes of a path: a letter, '.', '/', and a byte that is no UTF-8
PathBytes == {"a", ".", "/", "xFF"}

OsPaths == StringsUpTo(PathBytes, MaxPathLen)

\* Path::components on Unix, past the root: the names between '/', the empty
\* ones left out ("." is CurDir, ".." is ParentDir, any other is Normal)
components(value) == SelectSeq(SplitOn(value, "/"), LAMBDA c : c # <<>>)

InvalidVaultPath(msg) == [ok |-> FALSE, err |-> "InvalidVaultPath", msg |-> msg]

\* impl TryFrom<&Path> for VaultPath: the VaultPath is the kept components
try_from(value) ==
    IF Len(value) = 0 THEN InvalidVaultPath("empty path")
    ELSE IF value[1] = "/" THEN InvalidVaultPath("absolute paths are not allowed")
    ELSE LET cs == components(value)
         IN  IF \E i \in 1..Len(cs) : cs[i] = <<".", ".">>
             THEN InvalidVaultPath("path traversal is not allowed")
             ELSE LET cleaned == SelectSeq(cs, LAMBDA c : c # <<".">>)
                  IN  IF Len(cleaned) = 0 THEN InvalidVaultPath("empty path")
                      ELSE [ok |-> TRUE, path |-> cleaned]

\* OsStr::to_string_lossy: a byte that is no UTF-8 becomes U+FFFD
to_string_lossy(bytes) ==
    [i \in 1..Len(bytes) |-> IF bytes[i] = "xFF" THEN "uFFFD" ELSE bytes[i]]

\* VaultPath::as_str_lossy
as_str_lossy(path) == to_string_lossy(JoinWith(path, "/"))

\* VaultPath::try_from(Path::new(value))
TryFrom(value) ==
    /\ value \in OsPaths
    /\ LibCall([op |-> "try_from", arg |-> value, res |-> try_from(value),
                of |-> InvalidVaultPath("")])

\* the string form of the VaultPath just made, converted again
TryFromStringForm ==
    /\ call.op = "try_from" /\ call.res.ok
    /\ LibCall([op |-> "try_from", arg |-> as_str_lossy(call.res.path),
                res |-> try_from(as_str_lossy(call.res.path)), of |-> call.res])

NextPath ==
    \/ \E value \in OsPaths : TryFrom(value)
    \/ TryFromStringForm

SpecPath == Init /\ [][NextPath]_vars

\* C29: a path is accepted exactly when it is not empty, not absolute, has no
\* ".." component and has a component other than "."; the VaultPath is its
\* components without the "." and the empty ones; and the string form of an
\* accepted VaultPath converts to an equal VaultPath.
C29_RejectsAndRoundTrips ==
    call.op = "try_from" =>
        /\ call.res.ok =>
            /\ Len(call.arg) > 0 /\ call.arg[1] # "/"
            /\ \A i \in 1..Len(call.res.path) :
                /\ call.res.path[i] \notin {<<>>, <<".">>, <<".", ".">>}
                /\ \A j \in 1..Len(call.res.path[i]) : call.res.path[i][j] # "/"
        /\ ~call.res.ok => call.res.err = "InvalidVaultPath"
        /\ call.of.ok => call.res = call.of

-----------------------------------------------------------------------------
(* The link resolver (src/src/link_resolve.rs).  A VaultPath is the sequence *)
(* of its components, as try_from makes it.                                  *)

\* the ASCII code of the characters of the model's names and references
CharCode(c) ==
    CASE c = " " -> 32 [] c = "#" -> 35 [] c = "%" -> 37 [] c = "-" -> 45
      [] c = "." -> 46 [] c = "/" -> 47
      [] c = "0" -> 48 [] c = "2" -> 50
      [] c = "A" -> 65 [] c = "B" -> 66 [] c = "D" -> 68 [] c = "F" -> 70
      [] c = "L" -> 76 [] c = "M" -> 77 [] c = "N" -> 78 [] c = "T" -> 84
      [] c = "\\" -> 92 [] c = "^" -> 94 [] c = "_" -> 95
      [] c = "a" -> 97 [] c = "b" -> 98 [] c = "d" -> 100 [] c = "f" -> 102
      [] c = "g" -> 103 [] c = "h" -> 104 [] c = "l" -> 108 [] c = "m" -> 109
      [] c = "n" -> 110 [] c = "p" -> 112 [] c = "s" -> 115 [] c = "t" -> 116
      [] c = "x" -> 120
      [] OTHER -> 255

\* char::to_lowercase
LowerChar(c) ==
    CASE c = "A" -> "a" [] c = "B" -> "b" [] c = "D" -> "d" [] c = "F" -> "f"
      [] c = "L" -> "l" [] c = "M" -> "m" [] c = "N" -> "n" [] c = "T" -> "t"
      [] OTHER -> c

\* str::to_lowercase
ToLower(s) == [i \in 1..Len(s) |-> LowerChar(s[i])]

Contains(s, c) == \E i \in 1..Len(s) : s[i] = c

\* the place of the last c in s, 0 when there is none
LastIndexOf(s, c) ==
    LET at == {i \in 1..Len(s) : s[i] = c}
    IN  IF at = {} THEN 0 ELSE CHOOSE k \in at : \A j \in at : j <= k

RECURSIVE trim_start(_)
trim_start(s) == IF Len(s) > 0 /\ s[1] = " " THEN trim_start(Tail(s)) ELSE s

RECURSIVE trim_end(_)
trim_end(s) ==
    IF Len(s) > 0 /\ s[Len(s)] = " " THEN trim_end(SubSeq(s, 1, Len(s) - 1)) ELSE s

\* str::trim
trim(s) == trim_end(trim_start(s))

\* Path::file_stem of a file name
file_stem(name) ==
    LET dot == LastIndexOf(name, ".")
    IN  IF dot <= 1 THEN name ELSE SubSeq(name, 1, dot - 1)

\* Path::extension of a file name (empty: none)
extension(name) ==
    LET dot == LastIndexOf(name, ".")
    IN  IF dot <= 1 THEN <<>> ELSE SubSeq(name, dot + 1, Len(name))

\* FileMeta.kind, as file_kind_from_path gives it
file_kind(path) ==
    LET ext == ToLower(extension(file_name(path)))
    IN  CASE ext = <<"m", "d">> -> "Markdown"
          [] ext = <<"c", "a", "n", "v", "a", "s">> -> "Canvas"
          [] ext = <<"p", "n", "g">> -> "Attachment"
          [] OTHER -> "Other"

IsNote(path) == file_kind(path) \in {"Markdown", "Canvas"}

RECURSIVE StrLess(_, _)
\* the order of two strings (byte by byte)
StrLess(a, b) ==
    IF Len(b) = 0 THEN FALSE
    ELSE IF Len(a) = 0 THEN TRUE
    ELSE IF a[1] # b[1] THEN CharCode(a[1]) < CharCode(b[1])
    ELSE StrLess(Tail(a), Tail(b))

RECURSIVE PathLess(_, _)
\* the order of VaultPath (PathBuf: component by component)
PathLess(p, q) ==
    IF Len(q) = 0 THEN FALSE
    ELSE IF Len(p) = 0 THEN TRUE
    ELSE IF p[1] # q[1] THEN StrLess(p[1], q[1])
    ELSE PathLess(Tail(p), Tail(q))

RECURSIVE SortedPaths(_)
\* candidates.sort(); candidates.dedup(): the paths of a set in their order
SortedPaths(set) ==
    IF set = {} THEN <<>>
    ELSE LET least == CHOOSE p \in set : \A q \in set \ {p} : PathLess(p, q)
         IN  <<least>> \o SortedPaths(set \ {least})

SeqRange(s) == {s[i] : i \in 1..Len(s)}

\* ResolveResult
Missing == [type |-> "Missing"]

Resolved(path) == [type |-> "Resolved", path |-> path]

Ambiguous(candidates) == [type |-> "Ambiguous", candidates |-> candidates]

\* pick
pick(candidates) ==
    LET sorted == SortedPaths(SeqRange(candidates))
    IN  CASE Len(sorted) = 0 -> Missing
          [] Len(sorted) = 1 -> Resolved(sorted[1])
          [] OTHER -> Ambiguous(sorted)

RECURSIVE ShortestOf(_, _, _, _)
\* pick_shortest_or_ambiguous: the loop that keeps the candidates of the
\* least length seen so far (best_len < 0: none yet)
ShortestOf(sorted, i, best_len, best) ==
    IF i > Len(sorted) THEN best
    ELSE LET len == Len(as_str_lossy(sorted[i]))
         IN  IF best_len < 0 \/ len < best_len
             THEN ShortestOf(sorted, i + 1, len, <<sorted[i]>>)
             ELSE IF len = best_len
             THEN ShortestOf(sorted, i + 1, best_len, Append(best, sorted[i]))
             ELSE ShortestOf(sorted, i + 1, best_len, best)

pick_shortest_or_ambiguous(candidates) ==
    LET sorted == SortedPaths(SeqRange(candidates))
    IN  IF Len(sorted) = 0 THEN Missing
        ELSE IF Len(sorted) = 1 THEN Resolved(sorted[1])
        ELSE LET best == ShortestOf(sorted, 1, -1, <<>>)
             IN  IF Len(best) = 1 THEN Resolved(best[1]) ELSE Ambiguous(best)

\* the candidates of the source's directory are not preferred
pick_prefer_source_AnyDir(candidates, source) ==
    pick_shortest_or_ambiguous(candidates)

pick_prefer_source(candidates, source) ==
    LET sorted == SortedPaths(SeqRange(candidates))
        same_dir == SelectSeq(sorted, LAMBDA c : Parent(c) = Parent(source))
    IN  IF Len(sorted) <= 1 THEN pick(sorted)
        ELSE IF Len(same_dir) > 0 THEN pick_shortest_or_ambiguous(same_dir)
        ELSE pick_shortest_or_ambiguous(sorted)

\* the files a link can resolve to
LinkFiles ==
    { <<<<"n">>, <<"A", ".", "m", "d">>>>, <<<<"m">>, <<"A", ".", "m", "d">>>>, <<<<"n">>, <<"a", ".", "m", "d">>>>, <<<<"A", ".", "m", "d">>>>, <<<<"m">>, <<"b", ".", "m", "d">>>>, <<<<"n">>, <<"p", ".", "p", "n", "g">>>> }

\* the notes that hold the links
LinkSources == { <<<<"n">>, <<"s", ".", "m", "d">>>>, <<<<"m">>, <<"s", ".", "m", "d">>>>, <<<<"s", ".", "m", "d">>>> }

Reversed(s) == [i \in 1..Len(s) |-> s[Len(s) + 1 - i]]

\* a Vec of candidates: in any order, a path may stand in it twice
CandidateVecs(set) ==
    LET sorted == SortedPaths(set)
    IN  {sorted} \cup
        (IF set = {} THEN {} ELSE {Append(Reversed(sorted), sorted[1])})

\* pick_prefer_source(candidates, source)
Pick ==
    /\ call.op = "input" /\ call.for = "pick_prefer_source"
    /\ LibCall([op |-> "pick_prefer_source", arg |-> call.arg,
                res |-> pick_prefer_source(call.arg.candidates, call.arg.source)])

\* NoteMeta.aliases of the notes of the model
aliases(path) == IF path = <<<<"m">>, <<"b", ".", "m", "d">>>> THEN {<<"a", "l", "t">>, <<"a">>} ELSE {}

\* the index a Resolver is made of: all_files() in the order the HashMap
\* gives them (any order), and the aliases of its notes
LinkIndexes ==
    UNION { {SortedPaths(set), Reversed(SortedPaths(set))} : set \in SUBSET LinkFiles }

\* Resolver::new, by_rel: rel string -> path (none: the empty sequence)
by_rel(files, key) == SelectSeq(files, LAMBDA f : as_str_lossy(f) = key)

\* Resolver::new, by_rel_lower: the file inserted last under the key stays
by_rel_lower(files, key) ==
    LET found == SelectSeq(files, LAMBDA f : ToLower(as_str_lossy(f)) = key)
    IN  IF Len(found) = 0 THEN <<>> ELSE <<found[Len(found)]>>

by_filename(files, key) == SelectSeq(files, LAMBDA f : file_name(f) = key)

by_filename_lower(files, key) ==
    SelectSeq(files, LAMBDA f : ToLower(file_name(f)) = key)

by_stem(files, key) ==
    SelectSeq(files, LAMBDA f : IsNote(f) /\ file_stem(file_name(f)) = key)

by_stem_lower(files, key) ==
    SelectSeq(files, LAMBDA f : IsNote(f) /\ ToLower(file_stem(file_name(f))) = key)

\* by_alias: filled from notes_iter()
by_alias(files, key) ==
    SelectSeq(files, LAMBDA f : IsNote(f) /\ \E a \in aliases(f) : ToLower(a) = key)

\* Resolver::new, note_exts: a sorted set of lowercased extensions
note_exts(files) ==
    LET exts == {ToLower(extension(file_name(f))) :
                    f \in {g \in SeqRange(files) :
                            IsNote(g) /\ LastIndexOf(file_name(g), ".") > 1}}
    IN  SortedPaths({<<e>> : e \in exts})

\* has_extension
has_extension(path) ==
    LET dot == LastIndexOf(path, ".") IN dot > 0 /\ dot < Len(path)

\* from_hex (-1: none)
from_hex(b) ==
    CASE b = "0" -> 0 [] b = "2" -> 2
      [] b \in {"a", "A"} -> 10 [] b \in {"b", "B"} -> 11
      [] b \in {"d", "D"} -> 13 [] b \in {"f", "F"} -> 15
      [] OTHER -> -1

\* the character of a decoded byte; a byte over 127 on its own is no UTF-8
ByteChar(n) ==
    IF n > 127 THEN "xFF"
    ELSE IF \E c \in {" ", "/", "."} : CharCode(c) = n
    THEN CHOOSE c \in {" ", "/", "."} : CharCode(c) = n
    ELSE "?"

RECURSIVE DecodeFrom(_, _)
\* percent_decode: the loop over the bytes
DecodeFrom(s, i) ==
    IF i > Len(s) THEN <<>>
    ELSE IF /\ s[i] = "%" /\ i + 2 <= Len(s)
            /\ from_hex(s[i + 1]) >= 0 /\ from_hex(s[i + 2]) >= 0
    THEN <<ByteChar(16 * from_hex(s[i + 1]) + from_hex(s[i + 2]))>> \o DecodeFrom(s, i + 3)
    ELSE <<IF s[i] = "\\" THEN "/" ELSE s[i]>> \o DecodeFrom(s, i + 1)

\* percent_decode(reference).unwrap_or_else(|| reference.to_string())
percent_decoded(reference) ==
    IF ~Contains(reference, "%") /\ ~Contains(reference, "\\") THEN reference
    ELSE LET bytes == DecodeFrom(reference, 1)
         IN  IF Contains(bytes, "xFF") THEN reference ELSE bytes

\* the bare name looks its aliases up only when no stem matches
bare_candidates_StemsFirst(files, r) ==
    IF Len(by_stem(files, r) \o by_stem_lower(files, ToLower(r))) > 0
    THEN by_stem(files, r) \o by_stem_lower(files, ToLower(r))
    ELSE by_alias(files, ToLower(r))

\* resolve_internal_with_source: the candidates of a bare name
bare_candidates(files, r) ==
    by_stem(files, r) \o by_stem_lower(files, ToLower(r)) \o by_alias(files, ToLower(r))

\* resolve_internal_with_source: r contains a slash
resolve_path(files, r) ==
    IF Len(by_rel(files, r)) > 0 THEN Resolved(by_rel(files, r)[1])
    ELSE IF Len(by_rel_lower(files, ToLower(r))) > 0
    THEN Resolved(by_rel_lower(files, ToLower(r))[1])
    ELSE IF ~has_extension(r)
    THEN LET exts == note_exts(files)
             cand(e) == r \o <<".">> \o e[1]
             one(e) == IF Len(by_rel(files, cand(e))) > 0 THEN by_rel(files, cand(e))
                       ELSE by_rel_lower(files, ToLower(cand(e)))
             all[i \in 0..Len(exts)] == IF i = 0 THEN <<>> ELSE all[i - 1] \o one(exts[i])
         IN  pick(all[Len(exts)])
    ELSE Missing

resolve_internal_with_source(files, reference, source) ==
    LET r == trim(percent_decoded(reference))
    IN  IF Len(r) = 0 THEN Missing
        ELSE IF Contains(r, "/") THEN resolve_path(files, r)
        ELSE IF has_extension(r)
        THEN IF Len(by_filename(files, r)) > 0
             THEN pick_prefer_source(by_filename(files, r), source)
             ELSE IF Len(by_filename_lower(files, ToLower(r))) > 0
             THEN pick_prefer_source(by_filename_lower(files, ToLower(r)), source)
             ELSE Missing
        ELSE IF Len(bare_candidates(files, r)) > 0
        THEN pick_prefer_source(bare_candidates(files, r), source)
        ELSE IF Len(by_rel(files, r)) > 0 THEN Resolved(by_rel(files, r)[1])
        ELSE IF Len(by_rel_lower(files, ToLower(r))) > 0
        THEN Resolved(by_rel_lower(files, ToLower(r))[1])
        ELSE Missing

\* the references resolved
References ==
    { <<>>, <<" ">>, <<"%", "2", "0">>, <<"A">>, <<"a">>, <<" ", "A", " ">>, <<"a", "l", "t">>, <<"A", "L", "T">>, <<"b">>, <<"x">>,
      <<"A", ".", "m", "d">>, <<"a", ".", "m", "d">>, <<"a", ".", "M", "D">>, <<"p", ".", "p", "n", "g">>, <<"A", ".">>, <<"n", "/", "A">>, <<"n", "/", "a">>, <<"N", "/", "A">>,
      <<"n", "/", "A", ".", "m", "d">>, <<"N", "/", "a", ".", "M", "D">>, <<"n", "\\", "A">>, <<"n", "%", "2", "F", "A">>, <<"n", "/", "x">>, <<"n", "/", "p">>, <<"m", "/", "b">>, <<"A", "%", "F", "F">>,
      <<"n", "/", "A", ".">> }

\* LinkResolver::new(&index).resolve_internal(reference, source)
Resolve ==
    /\ call.op = "input" /\ call.for = "resolve_internal"
    /\ LibCall([op |-> "resolve_internal", arg |-> call.arg,
                res |-> resolve_internal_with_source(
                            call.arg.files, call.arg.reference, call.arg.source)])

ResolveInputs ==
    { Input("pick_prefer_source", [candidates |-> c, source |-> s]) :
        c \in UNION {CandidateVecs(set) : set \in SUBSET LinkFiles}, s \in LinkSources }
    \cup
    { Input("resolve_internal", [files |-> f, reference |-> r, source |-> s]) :
        f \in LinkIndexes, r \in References, s \in LinkSources }

InitResolve ==
    /\ InitService
    /\ call \in ResolveInputs

NextResolve ==
    \/ Pick
    \/ Resolve

SpecResolve == InitResolve /\ [][NextResolve]_vars

-----------------------------------------------------------------------------
(* Properties of the link resolver (SpecResolve) *)

StrLen(path) == Len(as_str_lossy(path))

\* res is what the tie-breaking rule gives for the candidates `set` of a link
\* in the note `source`
TieBroken(set, source, res) ==
    LET near == {c \in set : Parent(c) = Parent(source)}
        kept == IF near # {} THEN near ELSE set
        short == {c \in kept : \A d \in kept : StrLen(c) <= StrLen(d)}
    IN  CASE Cardinality(set) = 0 -> res = Missing
          [] Cardinality(set) = 1 -> \E c \in set : res = Resolved(c)
          [] Cardinality(short) = 1 -> \E c \in short : res = Resolved(c)
          [] OTHER ->
                /\ res.type = "Ambiguous"
                /\ SeqRange(res.candidates) = short
                /\ \A i, j \in 1..Len(res.candidates) :
                        i < j => PathLess(res.candidates[i], res.candidates[j])

\* C21: pick_prefer_source gives Missing for no candidate and Resolved for
\* one; for more, it keeps the candidates in the source note's directory if
\* there is any, and among the kept ones Resolves to the single shortest path
\* string or is Ambiguous with the sorted list of the shortest ones.
C21_TieBreak ==
    call.op = "pick_prefer_source" =>
        TieBroken(SeqRange(call.arg.candidates), call.arg.source, call.res)

\* the candidates of the source's directory are Ambiguous although a shorter
\* candidate stands in another directory
C21_Witness ==
    /\ call.op = "pick_prefer_source"
    /\ call.res.type = "Ambiguous"
    /\ \A c \in SeqRange(call.res.candidates) : Parent(c) = Parent(call.arg.source)
    /\ \E c \in SeqRange(call.arg.candidates) :
            StrLen(c) < StrLen(call.res.candidates[1])

\* C22: resolve_internal follows the precedence chain.  With r the reference
\* decoded and trimmed: an empty r is Missing; an r with '/' resolves only to
\* a file whose whole path matches (exactly, else without case, else with a
\* note extension appended when r has none); an r with an extension and no
\* '/' tie-breaks the files of that name (exactly, else without case); a bare
\* r tie-breaks the notes whose stem, stem without case or alias match, all
\* together, and only when there is none resolves by the whole path.
C22_Precedence ==
    call.op = "resolve_internal" =>
        LET F == SeqRange(call.arg.files)
            r == trim(percent_decoded(call.arg.reference))
            res == call.res
            exact == {f \in F : as_str_lossy(f) = r}
            nocase == {f \in F : ToLower(as_str_lossy(f)) = ToLower(r)}
            exts == {ToLower(extension(file_name(f))) : f \in {g \in F : IsNote(g)}}
            extended == {f \in F : \E e \in exts :
                            ToLower(as_str_lossy(f)) = ToLower(r \o <<".">> \o e)}
            named == {f \in F : file_name(f) = r}
            named_nocase == {f \in F : ToLower(file_name(f)) = ToLower(r)}
            bare == {f \in F : /\ IsNote(f)
                               /\ \/ ToLower(file_stem(file_name(f))) = ToLower(r)
                                  \/ \E a \in aliases(f) : ToLower(a) = ToLower(r)}
            whole == IF exact # {} THEN \E f \in exact : res = Resolved(f)
                     ELSE IF nocase # {}
                     THEN res.type = "Resolved" /\ res.path \in nocase
                     ELSE res = Missing
        IN  IF Len(r) = 0 THEN res = Missing
            ELSE IF Contains(r, "/")
            THEN IF exact # {} \/ nocase # {} THEN whole
                 ELSE IF has_extension(r) \/ extended = {} THEN res = Missing
                 ELSE \/ res.type = "Resolved" /\ res.path \in extended
                      \/ /\ res.type = "Ambiguous"
                         /\ SeqRange(res.candidates) \subseteq extended
            ELSE IF has_extension(r)
            THEN TieBroken(IF named # {} THEN named ELSE named_nocase,
                           call.arg.source, res)
            ELSE IF bare # {} THEN TieBroken(bare, call.arg.source, res)
            ELSE whole

\* a bare name with a note of that stem and another note of that alias: the
\* two are tie-broken together and the note of the alias is the one Resolved
C22_Witness ==
    /\ call.op = "resolve_internal"
    /\ ~Contains(call.arg.reference, "/") /\ ~has_extension(call.arg.reference)
    /\ call.res.type = "Resolved"
    /\ \E a \in aliases(call.res.path) : ToLower(a) = ToLower(call.arg.reference)
    /\ ToLower(file_stem(file_name(call.res.path))) # ToLower(call.arg.reference)
    /\ \E f \in SeqRange(call.arg.files) :
            IsNote(f) /\ ToLower(file_stem(file_name(f))) = ToLower(call.arg.reference)

-----------------------------------------------------------------------------
(* The link graph (src/src/graph.rs) and the link-health report             *)
(* (src/src/link_health.rs) over an index of notes and their link           *)
(* occurrences.                                                             *)

\* LinkTarget
Internal(reference) == [type |-> "Internal", reference |-> reference]

ExternalUrl == [type |-> "ExternalUrl"]

\* Option<Subpath>
NoSubpath == [type |-> "None"]

Heading(h) == [type |-> "Heading", text |-> h]

Block(b) == [type |-> "Block", text |-> b]

\* Link, without its location
LinkTo(target, subpath) == [target |-> target, subpath |-> subpath]

\* the links a note of the model can hold
Links ==
    { LinkTo(Internal(<<"A">>), NoSubpath),
      LinkTo(Internal(<<"A">>), Heading(<<"t", "a", "b", " ", "a">>)),
      LinkTo(Internal(<<"A">>), Heading(<<"T", "a", "b", "-", "A">>)),
      LinkTo(Internal(<<"A">>), Heading(<<"B", "a", "d">>)),
      LinkTo(Internal(<<"A">>), Heading(<<" ">>)),
      LinkTo(Internal(<<"A">>), Block(<<"b", "2">>)),
      LinkTo(Internal(<<"A">>), Block(<<"B", "2">>)),
      LinkTo(Internal(<<"p", ".", "p", "n", "g">>), Heading(<<"t", "a", "b", " ", "a">>)),
      LinkTo(Internal(<<"x">>), NoSubpath),
      LinkTo(ExternalUrl, NoSubpath) }

\* link occurrences in one note
MaxLinks == 2

\* Link: the i-th link of a note stands in column i of line 1
Occurrences(links) ==
    [i \in 1..Len(links) |->
        [target |-> links[i].target, subpath |-> links[i].subpath,
         location |-> [line |-> 1, column |-> i]]]

\* the text on disk of a file that links point to ("bq" is the backquote)
TargetText(path) ==
    IF path \in {<<<<"n">>, <<"A", ".", "m", "d">>>>, <<<<"m">>, <<"A", ".", "m", "d">>>>}
    THEN <<"#", " ", "T", "a", "b", " ", "A", "\n", "bq", "bq", "bq", "\n", "#", " ", "B", "a", "d", "\n", "bq", "bq", "bq", "\n", "s", "a", "i", "d", " ", "^", "b", "2", "\n">>
    ELSE <<>>

\* the indexes the graph is built of: all_files() and notes_iter() in the
\* order their HashMaps give, each note with its link_occurrences, and
\* whether the notes can be read from disk
GraphIndexes(maxLinks) ==
    { [files |-> order, notes |-> SelectSeq(order, LAMBDA f : f \in {<<<<"n">>, <<"s", ".", "m", "d">>>>, <<<<"s", ".", "m", "d">>>>}),
       links |-> [p \in {<<<<"n">>, <<"s", ".", "m", "d">>>>, <<<<"s", ".", "m", "d">>>>} |->
                    IF p = <<<<"s", ".", "m", "d">>>> THEN Occurrences(one) ELSE Occurrences(two)],
       readable |-> readable] :
        order \in UNION { {SortedPaths(set \cup {<<<<"n">>, <<"s", ".", "m", "d">>>>, <<<<"s", ".", "m", "d">>>>}),
                           Reversed(SortedPaths(set \cup {<<<<"n">>, <<"s", ".", "m", "d">>>>, <<<<"s", ".", "m", "d">>>>}))} :
                            set \in SUBSET {<<<<"n">>, <<"A", ".", "m", "d">>>>, <<<<"m">>, <<"A", ".", "m", "d">>>>, <<<<"n">>, <<"p", ".", "p", "n", "g">>>>} },
        one \in { <<>>, <<LinkTo(Internal(<<"A">>), NoSubpath)>>,
                  <<LinkTo(Internal(<<"x">>), NoSubpath)>> },
        two \in UNION { [1..n -> Links] : n \in 0..maxLinks },
        readable \in BOOLEAN }

\* Resolver::resolve_link_target
resolve_link_target(files, target, source) ==
    IF target.type # "Internal" THEN Missing
    ELSE resolve_internal_with_source(files, target.reference, source)

RECURSIVE InternalOccurrences(_, _)
\* `for (source, note) in index.notes_iter() { for link in &note.link_occurrences`
\* past the `continue` of the links that are not Internal
InternalOccurrences(idx, n) ==
    IF n = 0 THEN <<>>
    ELSE InternalOccurrences(idx, n - 1) \o
         LET source == idx.notes[n]
             occs == SelectSeq(idx.links[source], LAMBDA l : l.target.type = "Internal")
         IN  [i \in 1..Len(occs) |-> [source |-> source, link |-> occs[i]]]

\* ResolvedInternalLink
ResolvedInternalLink(files, o) ==
    [source |-> o.source, link |-> o.link,
     resolution |-> resolve_link_target(files, o.link.target, o.source)]

\* the comparator of the two sort_by calls: source, then location
OccLess(a, b) ==
    IF a.source # b.source THEN PathLess(a.source, b.source)
    ELSE \/ a.link.location.line < b.link.location.line
         \/ /\ a.link.location.line = b.link.location.line
            /\ a.link.location.column < b.link.location.column

RECURSIVE Inserted(_, _)
Inserted(sorted, x) ==
    IF Len(sorted) = 0 THEN <<x>>
    ELSE IF OccLess(x, sorted[Len(sorted)])
    THEN Append(Inserted(SubSeq(sorted, 1, Len(sorted) - 1), x), sorted[Len(sorted)])
    ELSE Append(sorted, x)

RECURSIVE SortedOccs(_, _)
SortedOccs(v, n) == IF n = 0 THEN <<>> ELSE Inserted(SortedOccs(v, n - 1), v[n])

\* the lists are left in the order of the traversal
sort_by_source_location_Unsorted(v) == v

\* Vec::sort_by (stable) with that comparator
sort_by_source_location(v) == SortedOccs(v, Len(v))

\* build_graph: every internal occurrence with what the resolver says of it,
\* in the order the loops meet them
ResolvedAll(files, occs) ==
    [i \in 1..Len(occs) |-> ResolvedInternalLink(files, occs[i])]

\* Backlink { source, link } of the occurrences that resolved to one target
Backlinks(to) == [i \in 1..Len(to) |-> [source |-> to[i].source, link |-> to[i].link]]

\* build_graph: the match on the resolution of each occurrence, then the sorts
GraphOf(rs) ==
    [inbound |->
        [t \in {rs[i].resolution.path :
                    i \in {j \in 1..Len(rs) : rs[j].resolution.type = "Resolved"}} |->
            sort_by_source_location(
                Backlinks(SelectSeq(rs, LAMBDA r : r.resolution = Resolved(t))))],
     unresolved |-> Len(SelectSeq(rs, LAMBDA r : r.resolution.type = "Missing")),
     ambiguous |-> Len(SelectSeq(rs, LAMBDA r : r.resolution.type = "Ambiguous")),
     issues |-> sort_by_source_location(
                    SelectSeq(rs, LAMBDA r : r.resolution.type # "Resolved"))]

\* build_graph
build_graph(idx) ==
    GraphOf(ResolvedAll(idx.files, InternalOccurrences(idx, Len(idx.notes))))

\* BacklinksIndex::backlinks
backlinks(graph, target) ==
    IF target \in DOMAIN graph.inbound THEN graph.inbound[target] ELSE <<>>

\* VaultIndex::resolved_outgoing_internal_links
resolved_outgoing_internal_links(idx, source) ==
    IF source \notin SeqRange(idx.notes) THEN <<>>
    ELSE LET occs == SelectSeq(idx.links[source], LAMBDA l : l.target.type = "Internal")
         IN  [i \in 1..Len(occs) |->
                ResolvedInternalLink(idx.files, [source |-> source, link |-> occs[i]])]

\* index.build_graph(&vault)
BuildGraph ==
    /\ call.op = "input" /\ call.for = "build_graph"
    /\ LibCall([op |-> "build_graph", arg |-> call.arg, res |-> build_graph(call.arg)])

\* str::lines
lines(text) ==
    LET parts == SplitOn(text, "\n")
        kept == IF parts[Len(parts)] = <<>> THEN SubSeq(parts, 1, Len(parts) - 1)
                ELSE parts
    IN  [i \in 1..Len(kept) |->
            IF Len(kept[i]) > 0 /\ kept[i][Len(kept[i])] = "\r"
            THEN SubSeq(kept[i], 1, Len(kept[i]) - 1) ELSE kept[i]]

\* str::starts_with
StartsWith(s, prefix) == Len(s) >= Len(prefix) /\ SubSeq(s, 1, Len(prefix)) = prefix

\* char::is_ascii_alphanumeric on the characters of the model
is_ascii_alphanumeric(c) ==
    c \in {"0", "1", "2", "A", "B", "C", "D", "F", "L", "M", "N", "T", "X",
           "a", "b", "c", "d", "e", "f", "g", "h", "i", "k", "l", "m", "n", "o", "p",
           "r", "s", "t", "v", "x", "y"}

\* char::is_whitespace
is_whitespace(c) == c \in {" ", "\t", "\n", "\r"}

RECURSIVE CountLeading(_, _)
CountLeading(s, c) ==
    IF Len(s) > 0 /\ s[1] = c THEN 1 + CountLeading(Tail(s), c) ELSE 0

\* parse_heading (none: the empty sequence, some: the title in a sequence)
parse_heading(line) ==
    LET i == CountLeading(line, "#")
    IN  IF i = 0 \/ i > 6 THEN <<>>
        ELSE IF i >= Len(line) \/ line[i + 1] # " " THEN <<>>
        ELSE LET title == trim(SubSeq(line, i + 2, Len(line)))
             IN  IF Len(title) = 0 THEN <<>> ELSE <<title>>

RECURSIVE TakeWhileId(_)
\* take_while(|c| c.is_ascii_alphanumeric() || *c == '-' || *c == '_')
TakeWhileId(s) ==
    IF Len(s) > 0 /\ (is_ascii_alphanumeric(s[1]) \/ s[1] \in {"-", "_"})
    THEN <<s[1]>> \o TakeWhileId(Tail(s)) ELSE <<>>

\* parse_block_id
parse_block_id(line) ==
    LET k == LastIndexOf(line, "^")
    IN  IF k = 0 \/ k >= Len(line) THEN <<>>
        ELSE IF k > 1 /\ ~is_whitespace(line[k - 1]) THEN <<>>
        ELSE LET id == TakeWhileId(SubSeq(line, k + 1, Len(line)))
             IN  IF Len(id) = 0 THEN <<>> ELSE <<id>>

RECURSIVE SlugFrom(_, _, _, _)
\* slugify: the loop over the characters
SlugFrom(s, i, slug, last_dash) ==
    IF i > Len(s) THEN slug
    ELSE LET c == LowerChar(s[i])
         IN  IF is_ascii_alphanumeric(c) THEN SlugFrom(s, i + 1, Append(slug, c), FALSE)
             ELSE IF /\ (is_whitespace(c) \/ c \in {"-", "_", "/"})
                     /\ Len(slug) > 0 /\ ~last_dash
             THEN SlugFrom(s, i + 1, Append(slug, "-"), TRUE)
             ELSE SlugFrom(s, i + 1, slug, last_dash)

RECURSIVE TrimDashes(_)
TrimDashes(s) ==
    IF Len(s) > 0 /\ s[Len(s)] = "-" THEN TrimDashes(SubSeq(s, 1, Len(s) - 1)) ELSE s

slugify(s) == TrimDashes(SlugFrom(s, 1, <<>>, FALSE))

\* index_targets: what a line outside a fence adds (h: its heading, b: its
\* block id, each none or one)
WithTargets(found, h, b) ==
    [headings |-> found.headings \cup {ToLower(h[j]) : j \in 1..Len(h)},
     heading_slugs |-> found.heading_slugs \cup {slugify(ToLower(h[j])) : j \in 1..Len(h)},
     blocks |-> found.blocks \cup {b[j] : j \in 1..Len(b)}]

RECURSIVE TargetsFrom(_, _, _, _)
\* index_targets: the loop over the lines
TargetsFrom(ls, i, in_fenced, found) ==
    IF i > Len(ls) THEN found
    ELSE IF StartsWith(trim_start(ls[i]), <<"bq", "bq", "bq">>)
    THEN TargetsFrom(ls, i + 1, ~in_fenced, found)
    ELSE IF in_fenced THEN TargetsFrom(ls, i + 1, in_fenced, found)
    ELSE TargetsFrom(ls, i + 1, in_fenced,
                     WithTargets(found, parse_heading(trim_start(ls[i])),
                                 parse_block_id(trim_start(ls[i]))))

index_targets(text) ==
    TargetsFrom(lines(text), 1, FALSE,
                [headings |-> {}, heading_slugs |-> {}, blocks |-> {}])

\* a heading subpath validates by its text alone
heading_found_TextOnly(t, want) == ToLower(want) \in t.headings

\* validate_subpath: the heading is there, by text or by slug
heading_found(t, want) ==
    ToLower(want) \in t.headings \/ slugify(want) \in t.heading_slugs

\* validate_subpath: the match on the subpath, against the targets of the text
validate_in(t, type, want) ==
    IF Len(want) = 0 THEN [type |-> "Ok"]
    ELSE IF type = "Heading"
    THEN IF heading_found(t, want) THEN [type |-> "Ok"]
         ELSE [type |-> "MissingHeading", heading |-> want]
    ELSE IF want \in t.blocks THEN [type |-> "Ok"]
         ELSE [type |-> "MissingBlock", block |-> want]

\* validate_subpath
validate_subpath(idx, target, subpath) ==
    IF target \notin SeqRange(idx.files) THEN [type |-> "Ok"]
    ELSE IF ~IsNote(target) THEN [type |-> "Ok"]
    ELSE IF ~idx.readable THEN [type |-> "Err"]
    ELSE validate_in(index_targets(TargetText(target)), subpath.type, trim(subpath.text))

LinkIssue(o, reason) == [source |-> o.source, link |-> o.link, reason |-> reason]

\* link_health_report: what one internal occurrence adds to the report
\* ("Err": validate_subpath failed and `?` returns its error)
CheckedSubpath(o, sub) ==
    IF sub.type \in {"Ok", "Err"} THEN sub ELSE LinkIssue(o, sub)

CheckedAs(idx, o, resolution) ==
    CASE resolution.type = "Missing" -> LinkIssue(o, [type |-> "MissingTarget"])
      [] resolution.type = "Ambiguous" ->
            LinkIssue(o, [type |-> "AmbiguousTarget", candidates |-> resolution.candidates])
      [] OTHER ->
            IF o.link.subpath.type = "None" THEN [type |-> "Ok"]
            ELSE CheckedSubpath(o, validate_subpath(idx, resolution.path, o.link.subpath))

Checked(idx, o) ==
    CheckedAs(idx, o,
              resolve_internal_with_source(idx.files, o.link.target.reference, o.source))

RECURSIVE HealthFrom(_, _, _, _)

\* link_health_report: the body of the loop after `report.total_internal_occurrences += 1`
\* (c: what the occurrence came to)
HealthAfter(idx, occs, i, c, counted) ==
    IF "type" \in DOMAIN c
    THEN IF c.type = "Err" THEN [type |-> "Err"]
         ELSE HealthFrom(idx, occs, i + 1, [counted EXCEPT !.ok = @ + 1])
    ELSE HealthFrom(idx, occs, i + 1, [counted EXCEPT !.broken = Append(@, c)])

\* link_health_report: the loops over the notes and their link occurrences
HealthFrom(idx, occs, i, report) ==
    IF i > Len(occs) THEN [type |-> "Ok", report |-> report]
    ELSE HealthAfter(idx, occs, i, Checked(idx, occs[i]),
                     [report EXCEPT !.total_internal_occurrences = @ + 1])

link_health_report(idx) ==
    HealthFrom(idx, InternalOccurrences(idx, Len(idx.notes)), 1,
               [total_internal_occurrences |-> 0, ok |-> 0, broken |-> <<>>])

\* index.link_health_report(&vault)
LinkHealthReport ==
    /\ call.op = "input" /\ call.for = "link_health_report"
    /\ LibCall([op |-> "link_health_report", arg |-> call.arg,
                res |-> link_health_report(call.arg)])

GraphInputs(maxLinks) ==
    { Input("build_graph", idx) : idx \in {i \in GraphIndexes(maxLinks) : i.readable} }
    \cup { Input("link_health_report", idx) : idx \in GraphIndexes(maxLinks) }

InitGraph ==
    /\ InitService
    /\ call \in GraphInputs(MaxLinks)

NextGraph ==
    \/ BuildGraph
    \/ LinkHealthReport

SpecGraph == InitGraph /\ [][NextGraph]_vars

\* ---- properties of the link graph ----

CountIn(seq, x) == Cardinality({i \in 1..Len(seq) : seq[i] = x})

\* the places of a graph where the occurrence o of a note stands
InboundPlaces(graph, o) ==
    {<<t, i>> \in UNION {{<<u, j>> : j \in 1..Len(graph.inbound[u])} : u \in DOMAIN graph.inbound} :
        graph.inbound[t][i] = [source |-> o.source, link |-> o.link]}

IssuePlaces(graph, o) ==
    {i \in 1..Len(graph.issues) :
        graph.issues[i].source = o.source /\ graph.issues[i].link = o.link}

NonDecreasing(v) == \A i \in 1..Len(v) : \A j \in (i + 1)..Len(v) : ~OccLess(v[j], v[i])

\* what build_graph made of one occurrence agrees with `outgoing`, the entry
\* resolved_outgoing_internal_links has for it
PlacedOnce(graph, o, outgoing) ==
    /\ outgoing.source = o.source
    /\ IF outgoing.resolution.type = "Resolved"
       THEN /\ InboundPlaces(graph, o) \subseteq
                    {<<outgoing.resolution.path, i>> :
                        i \in 1..Len(backlinks(graph, outgoing.resolution.path))}
            /\ Cardinality(InboundPlaces(graph, o)) = 1
            /\ IssuePlaces(graph, o) = {}
       ELSE /\ InboundPlaces(graph, o) = {}
            /\ Cardinality(IssuePlaces(graph, o)) = 1
            /\ \A i \in IssuePlaces(graph, o) :
                    graph.issues[i].resolution = outgoing.resolution

GraphAgrees(idx, graph, occs) ==
    /\ \A k \in 1..Len(occs) :
            \E r \in SeqRange(resolved_outgoing_internal_links(idx, occs[k].source)) :
                /\ r.link = occs[k].link
                /\ PlacedOnce(graph, occs[k], r)
    /\ Cardinality(UNION {{<<u, j>> : j \in 1..Len(graph.inbound[u])} :
                            u \in DOMAIN graph.inbound})
            + graph.unresolved + graph.ambiguous = Len(occs)
    /\ graph.unresolved = Cardinality({i \in 1..Len(graph.issues) :
                                            graph.issues[i].resolution.type = "Missing"})
    /\ graph.ambiguous = Cardinality({i \in 1..Len(graph.issues) :
                                            graph.issues[i].resolution.type = "Ambiguous"})
    /\ \A t \in DOMAIN graph.inbound : NonDecreasing(graph.inbound[t])

\* C23: build_graph classifies every internal link occurrence as
\* resolved_outgoing_internal_links does for its source and places it exactly
\* once: a Resolved occurrence once in backlinks(target) and in no issue, a
\* Missing or Ambiguous one once in the issues and in no inbound list, so that
\* backlinks + unresolved + ambiguous is the number of internal occurrences;
\* every inbound list is sorted by (source, location)
C23_GraphPlacesOnce ==
    call.op = "build_graph" =>
        GraphAgrees(call.arg, call.res, InternalOccurrences(call.arg, Len(call.arg.notes)))

\* a graph of two notes met in the reverse of their order, both linking to
\* one target, one of them with a link that resolves to nothing
C23_Witness ==
    /\ call.op = "build_graph"
    /\ Len(call.arg.notes) = 2
    /\ PathLess(call.arg.notes[2], call.arg.notes[1])
    /\ \E t \in DOMAIN call.res.inbound :
            /\ Len(call.res.inbound[t]) = 2
            /\ call.res.inbound[t][1].source # call.res.inbound[t][2].source
    /\ call.res.unresolved = 1

\* ---- properties of the link health report ----

\* the headings (lowercased), their slugs and the block ids that TargetText
\* declares outside its fence
DeclaredHeadings == { <<"t", "a", "b", " ", "a">> }

DeclaredSlugs == { <<"t", "a", "b", "-", "a">> }

DeclaredBlocks == { <<"b", "2">> }

Validates(subpath) ==
    IF subpath.type = "Heading"
    THEN \/ ToLower(trim(subpath.text)) \in DeclaredHeadings
         \/ slugify(trim(subpath.text)) \in DeclaredSlugs
    ELSE trim(subpath.text) \in DeclaredBlocks

\* the reason a report has to give for an occurrence with this resolution
\* (none: the occurrence is ok)
ReasonsFor(o, resolution) ==
    CASE resolution.type = "Missing" -> {[type |-> "MissingTarget"]}
      [] resolution.type = "Ambiguous" ->
            {[type |-> "AmbiguousTarget", candidates |-> resolution.candidates]}
      [] OTHER ->
            IF \/ o.link.subpath.type = "None"
               \/ ~IsNote(resolution.path)
               \/ trim(o.link.subpath.text) = <<>>
               \/ Validates(o.link.subpath)
            THEN {}
            ELSE IF o.link.subpath.type = "Heading"
            THEN {[type |-> "MissingHeading", heading |-> trim(o.link.subpath.text)]}
            ELSE {[type |-> "MissingBlock", block |-> trim(o.link.subpath.text)]}

BrokenPlaces(report, o) ==
    {i \in 1..Len(report.broken) :
        report.broken[i].source = o.source /\ report.broken[i].link = o.link}

ReportAgrees(files, report, occs) ==
    /\ report.total_internal_occurrences = Len(occs)
    /\ report.total_internal_occurrences = report.ok + Len(report.broken)
    /\ \A k \in 1..Len(occs) :
            /\ Cardinality(BrokenPlaces(report, occs[k])) <= 1
            /\ {report.broken[i].reason : i \in BrokenPlaces(report, occs[k])}
                    = ReasonsFor(occs[k],
                                 resolve_internal_with_source(
                                    files, occs[k].link.target.reference, occs[k].source))

\* C24: link_health_report counts every internal link occurrence exactly
\* once, as ok or as one broken issue (total = ok + number of broken):
\* MissingTarget and AmbiguousTarget follow the resolver; MissingHeading and
\* MissingBlock are reported only for a link with a subpath whose resolved
\* target is Markdown or Canvas and whose subpath does not validate (heading
\* by case-insensitive text or by slug, block by its exact id); every other
\* occurrence is ok. (The call fails without a report only when a target
\* cannot be read.)
C24_HealthCounts ==
    call.op = "link_health_report" =>
        IF call.res.type = "Err" THEN ~call.arg.readable
        ELSE ReportAgrees(call.arg.files, call.res.report,
                          InternalOccurrences(call.arg, Len(call.arg.notes)))

\* a report with a heading that validates by its slug alone, counted ok, next
\* to a heading that is not in the target
C24_Witness ==
    /\ call.op = "link_health_report"
    /\ call.res.type = "Ok"
    /\ call.res.report.ok >= 1
    /\ \E i \in 1..Len(call.res.report.broken) :
            call.res.report.broken[i].reason.type = "MissingHeading"
    /\ \E n \in SeqRange(call.arg.notes) : \E k \in 1..Len(call.arg.links[n]) :
            /\ call.arg.links[n][k].subpath = Heading(<<"T", "a", "b", "-", "A">>)
            /\ BrokenPlaces(call.res.report, [source |-> n, link |-> call.arg.links[n][k]]) = {}

\* ---- parse/markdown.rs: the parser of a note, on lines of characters ----

\* the place of the first c in s at or after `from`, 0 when there is none
IndexFrom(s, c, from) ==
    IF \E i \in from..Len(s) : s[i] = c
    THEN CHOOSE i \in from..Len(s) : s[i] = c /\ \A j \in from..(i - 1) : s[j] # c
    ELSE 0

\* str::split_once(c): none, or the text before and the text after the first c
split_once(s, c) ==
    IF IndexFrom(s, c, 1) = 0 THEN <<>>
    ELSE <<[left |-> SubSeq(s, 1, IndexFrom(s, c, 1) - 1),
            right |-> SubSeq(s, IndexFrom(s, c, 1) + 1, Len(s))]>>

RECURSIVE trim_matches(_, _)
\* str::trim_matches(c)
trim_matches(s, c) ==
    IF Len(s) > 0 /\ s[1] = c THEN trim_matches(Tail(s), c)
    ELSE IF Len(s) > 0 /\ s[Len(s)] = c THEN trim_matches(SubSeq(s, 1, Len(s) - 1), c)
    ELSE s

\* str::strip_prefix('#') with the `s = rest` of normalize_tag
StripHash(s) == IF Len(s) > 0 /\ s[1] = "#" THEN Tail(s) ELSE s

\* normalize_tag: the last steps, on the text without its '/' at the ends
TagOf(s) == IF trim(s) = <<>> THEN {} ELSE {ToLower(trim(s))}

\* normalize_tag (none: the empty set)
normalize_tag(text) ==
    IF trim(StripHash(trim(text))) = <<>> THEN {}
    ELSE TagOf(trim_matches(trim(StripHash(trim(text))), "/"))

\* is_tag_char
is_tag_char(c) == is_ascii_alphanumeric(c) \/ c \in {"_", "-", "/"}

RECURSIVE TagEnd(_, _)
\* extract_inline_tags_from_line: `while j < bytes.len()` over the tag characters
TagEnd(line, j) ==
    IF j <= Len(line) /\ is_tag_char(line[j]) THEN TagEnd(line, j + 1) ELSE j

RECURSIVE TagsFrom(_, _, _)

\* extract_inline_tags_from_line: a '#' at i that can start a tag, whose
\* characters end before j
TagsAt(line, i, j, tags) ==
    IF j > i + 1 THEN TagsFrom(line, j, tags \cup normalize_tag(SubSeq(line, i + 1, j - 1)))
    ELSE TagsFrom(line, i + 1, tags)

\* extract_inline_tags_from_line: the loop over the bytes (i counts from 1)
TagsFrom(line, i, tags) ==
    IF i > Len(line) THEN tags
    ELSE IF line[i] # "#" THEN TagsFrom(line, i + 1, tags)
    ELSE IF i + 1 <= Len(line) /\ line[i + 1] = " " THEN TagsFrom(line, i + 1, tags)
    ELSE IF i > 1 /\ (is_ascii_alphanumeric(line[i - 1]) \/ line[i - 1] = "/")
    THEN TagsFrom(line, i + 1, tags)
    ELSE TagsAt(line, i, TagEnd(line, i + 1), tags)

extract_inline_tags_from_line(line) == TagsFrom(line, 1, {})

\* char::is_ascii_digit
is_ascii_digit(c) == c \in {"0", "1", "2", "3", "4", "5", "6", "7", "8", "9"}

RECURSIVE DigitsEnd(_, _)
\* parse_task_line: `while i < bytes.len() && is_ascii_digit` (the number of digits)
DigitsEnd(s, i) ==
    IF i < Len(s) /\ is_ascii_digit(s[i + 1]) THEN DigitsEnd(s, i + 1) ELSE i

\* parse_task_line: the text after the list marker (none: the empty sequence)
AfterMarker(s, i) ==
    IF \E m \in {"-", "*", "+"} : StartsWith(s, <<m, " ">>) THEN <<SubSeq(s, 3, Len(s))>>
    ELSE IF i = 0 THEN <<>>
    ELSE IF i + 1 >= Len(s) THEN <<>>
    ELSE IF s[i + 1] \notin {".", ")"} THEN <<>>
    ELSE IF s[i + 2] # " " THEN <<>>
    ELSE <<SubSeq(s, i + 3, Len(s))>>

\* parse_task_line: `match mark`
TaskStatusOf(mark) ==
    CASE mark = " " -> <<"Todo">>
      [] mark \in {"x", "X"} -> <<"Done">>
      [] mark = ">" -> <<"InProgress">>
      [] mark = "-" -> <<"Cancelled">>
      [] mark = "?" -> <<"Blocked">>
      [] OTHER -> <<>>

\* parse_task_line: from `let bytes = rest.as_bytes()` on
CheckedTask(rest) ==
    IF Len(rest) < 3 \/ rest[1] # "[" \/ rest[3] # "]" THEN <<>>
    ELSE IF TaskStatusOf(rest[2]) = <<>> THEN <<>>
    ELSE <<[status |-> TaskStatusOf(rest[2])[1], text |-> trim_start(SubSeq(rest, 4, Len(rest)))]>>

\* parse_task_line: the checkbox of the text after the marker, if there is one
TaskAfter(rest) == IF rest = <<>> THEN <<>> ELSE CheckedTask(rest[1])

\* parse_task_line (none: the empty sequence)
parse_task_line(line) ==
    TaskAfter(AfterMarker(trim_start(line), DigitsEnd(trim_start(line), 0)))

\* the place of the first "::" in s, 0 when there is none
IndexOfColons(s) ==
    IF \E i \in 1..(Len(s) - 1) : s[i] = ":" /\ s[i + 1] = ":"
    THEN CHOOSE i \in 1..(Len(s) - 1) :
            /\ s[i] = ":" /\ s[i + 1] = ":"
            /\ \A j \in 1..(i - 1) : ~(s[j] = ":" /\ s[j + 1] = ":")
    ELSE 0

\* parse_field_kv: the trimmed key and value, neither empty
FieldKv(k, v) == IF k = <<>> \/ v = <<>> THEN <<>> ELSE <<[key |-> k, value |-> v]>>

\* parse_field_kv (none: the empty sequence)
parse_field_kv(inner) ==
    IF IndexOfColons(inner) = 0 THEN <<>>
    ELSE FieldKv(trim(SubSeq(inner, 1, IndexOfColons(inner) - 1)),
                 trim(SubSeq(inner, IndexOfColons(inner) + 2, Len(inner))))

RECURSIVE BracketedFrom(_, _, _)

\* extract_bracketed_fields: a '[' at i, its ']' at j (0: there is none)
BracketedAt(line, i, j, fields) ==
    IF j = 0 THEN fields
    ELSE BracketedFrom(line, j + 1, fields \o parse_field_kv(SubSeq(line, i + 1, j - 1)))

\* extract_bracketed_fields: the loop over the bytes
BracketedFrom(line, i, fields) ==
    IF i > Len(line) THEN fields
    ELSE IF line[i] # "[" THEN BracketedFrom(line, i + 1, fields)
    ELSE BracketedAt(line, i, IndexFrom(line, "]", i + 1), fields)

extract_bracketed_fields(line) == BracketedFrom(line, 1, <<>>)

RECURSIVE RangesFrom(_, _, _)

\* bracket_ranges: a '[' at i, its ']' at j (0: there is none); a range holds
\* the places from its '[' to its ']'
RangesAt(line, i, j, ranges) ==
    IF j = 0 THEN ranges ELSE RangesFrom(line, j + 1, ranges \cup {i..j})

RangesFrom(line, i, ranges) ==
    IF i > Len(line) THEN ranges
    ELSE IF line[i] # "[" THEN RangesFrom(line, i + 1, ranges)
    ELSE RangesAt(line, i, IndexFrom(line, "]", i + 1), ranges)

bracket_ranges(line) == RangesFrom(line, 1, {})

\* is_field_key_char
is_field_key_char(c) == is_ascii_alphanumeric(c) \/ c \in {"_", "-", "/", "."}

RECURSIVE KeyStart(_, _)
\* extract_bare_fields: `while ks > 0` back over the key characters
KeyStart(line, ks) ==
    IF ks > 1 /\ is_field_key_char(line[ks - 1]) THEN KeyStart(line, ks - 1) ELSE ks

RECURSIVE BareFrom(_, _, _)

\* extract_bare_fields: a "::" at i outside the brackets, its key from ks
BareAt(line, i, ks, ranges) ==
    IF ks = i THEN BareFrom(line, i + 2, ranges)
    ELSE IF trim(SubSeq(line, ks, i - 1)) = <<>> THEN BareFrom(line, i + 2, ranges)
    ELSE IF trim(SubSeq(line, i + 2, Len(line))) = <<>> THEN BareFrom(line, i + 2, ranges)
    ELSE <<[key |-> trim(SubSeq(line, ks, i - 1)),
            value |-> trim(SubSeq(line, i + 2, Len(line)))]>>

\* extract_bare_fields: the loop over the bytes; the first field ends it
BareFrom(line, i, ranges) ==
    IF i + 1 > Len(line) THEN <<>>
    ELSE IF line[i] # ":" \/ line[i + 1] # ":" THEN BareFrom(line, i + 1, ranges)
    ELSE IF \E r \in ranges : i \in r THEN BareFrom(line, i + 2, ranges)
    ELSE BareAt(line, i, KeyStart(line, i), ranges)

extract_bare_fields(line) == BareFrom(line, 1, bracket_ranges(line))

\* extract_inline_fields_from_line
extract_inline_fields_from_line(line) ==
    extract_bracketed_fields(line) \o extract_bare_fields(line)

\* LinkTarget::ExternalUrl(url)
ExternalUrlTo(url) == [type |-> "ExternalUrl", url |-> url]

\* LinkTarget::ObsidianUri { raw }
ObsidianUri(uri) == [type |-> "ObsidianUri", raw |-> uri]

\* Some(subpath).filter(|sp| !text.is_empty())
NonEmptySubpath(subpath) == IF subpath.text = <<>> THEN NoSubpath ELSE subpath

\* Link (display: none or one text)
Link(kind, embed, display, target, subpath, line_no, column, text) ==
    [kind |-> kind, embed |-> embed, display |-> display, target |-> target,
     subpath |-> subpath, location |-> [line |-> line_no, column |-> column],
     raw |-> text]

\* normalize_wikilink_components: the target and the subpath of the text
\* before the alias (none: the empty sequence)
WikiTarget(before_alias) ==
    IF split_once(before_alias, "^") # <<>>
    THEN [target_raw |-> trim(split_once(before_alias, "^")[1].left),
          subpath |-> NonEmptySubpath(Block(trim(split_once(before_alias, "^")[1].right)))]
    ELSE IF split_once(before_alias, "#") # <<>>
    THEN [target_raw |-> trim(split_once(before_alias, "#")[1].left),
          subpath |-> NonEmptySubpath(Heading(trim(split_once(before_alias, "#")[1].right)))]
    ELSE [target_raw |-> trim(before_alias), subpath |-> NoSubpath]

WikiComponents(t, display) ==
    IF t.target_raw = <<>> THEN <<>>
    ELSE <<[target |-> Internal(t.target_raw), subpath |-> t.subpath, display |-> display]>>

\* normalize_wikilink_components (none: the empty sequence)
normalize_wikilink_components(inner) ==
    IF trim(inner) = <<>> THEN <<>>
    ELSE IF split_once(trim(inner), "|") # <<>>
    THEN WikiComponents(WikiTarget(trim(split_once(trim(inner), "|")[1].left)),
                        IF trim(split_once(trim(inner), "|")[1].right) = <<>> THEN <<>>
                        ELSE <<trim(split_once(trim(inner), "|")[1].right)>>)
    ELSE WikiComponents(WikiTarget(trim(inner)), <<>>)

RECURSIVE CloseAt(_, _)
\* extract_wikilinks_and_embeds: `while j + 1 < bytes.len()` to the "]]"
\* (0: there is none)
CloseAt(line, j) ==
    IF j >= Len(line) THEN 0
    ELSE IF line[j] = "]" /\ line[j + 1] = "]" THEN j
    ELSE CloseAt(line, j + 1)

\* the Link of a wiki link, if its text has a target
WikiLinks(c, embed, line_no, column, inner) ==
    [n \in 1..Len(c) |->
        Link("Wiki", embed, c[n].display, c[n].target, c[n].subpath, line_no, column, inner)]

RECURSIVE WikiFrom(_, _, _, _)

\* extract_wikilinks_and_embeds: a "[[" at start, its "]]" at j
WikiClosed(line, line_no, start, embed, j, occs) ==
    IF j = 0 THEN occs
    ELSE WikiFrom(line, line_no, j + 2,
                  occs \o WikiLinks(normalize_wikilink_components(SubSeq(line, start + 2, j - 1)),
                                    embed, line_no, start, SubSeq(line, start + 2, j - 1)))

WikiAt(line, line_no, i, start, occs) ==
    IF line[start] = "[" /\ line[start + 1] = "["
    THEN WikiClosed(line, line_no, start, start # i, CloseAt(line, start + 2), occs)
    ELSE WikiFrom(line, line_no, i + 1, occs)

\* extract_wikilinks_and_embeds: the loop over the bytes (i counts from 1)
WikiFrom(line, line_no, i, occs) ==
    IF i + 1 > Len(line) THEN occs
    ELSE WikiAt(line, line_no, i,
                IF line[i] = "!" /\ i + 2 <= Len(line) /\ line[i + 1] = "[" /\ line[i + 2] = "["
                THEN i + 1 ELSE i,
                occs)

extract_wikilinks_and_embeds(line, line_no) == WikiFrom(line, line_no, 1, <<>>)

\* normalize_markdown_target: an internal path with its heading fragment
MarkdownInternal(s, parts) ==
    IF parts = <<>> THEN <<[target |-> Internal(s), subpath |-> NoSubpath]>>
    ELSE IF trim(parts[1].left) = <<>> THEN <<>>
    ELSE <<[target |-> Internal(trim(parts[1].left)),
            subpath |-> NonEmptySubpath(Heading(trim(parts[1].right)))]>>

IsUrl(s) ==
    \/ StartsWith(s, <<"h", "t", "t", "p", ":", "/", "/">>)
    \/ StartsWith(s, <<"h", "t", "t", "p", "s", ":", "/", "/">>)
    \/ StartsWith(s, <<"m", "a", "i", "l", "t", "o", ":">>)

\* normalize_markdown_target on the trimmed text
MarkdownTarget(s) ==
    IF s = <<>> THEN <<>>
    ELSE IF StartsWith(s, <<"o", "b", "s", "i", "d", "i", "a", "n", ":", "/", "/">>)
    THEN <<[target |-> ObsidianUri(s), subpath |-> NoSubpath]>>
    ELSE IF IsUrl(s) THEN <<[target |-> ExternalUrlTo(s), subpath |-> NoSubpath]>>
    ELSE MarkdownInternal(s, split_once(s, "#"))

\* normalize_markdown_target (none: the empty sequence)
normalize_markdown_target(text) == MarkdownTarget(trim(text))

\* the Link of a Markdown link, if its text has a target
MarkdownLinks(c, embed, display, line_no, column, text) ==
    [n \in 1..Len(c) |->
        Link(IF c[n].target.type = "ObsidianUri" THEN "ObsidianUri" ELSE "Markdown",
             embed, IF trim(display) = <<>> THEN <<>> ELSE <<display>>,
             c[n].target, c[n].subpath, line_no, column, text)]

RECURSIVE MarkdownFrom(_, _, _, _)

\* extract_markdown_links_and_embeds: "[display](" from start to j + 1, the
\* ')' at k (0: there is none)
MarkdownClosed(line, line_no, start, embed, j, k, occs) ==
    IF k = 0 THEN occs
    ELSE MarkdownFrom(line, line_no, k + 1,
                      occs \o MarkdownLinks(normalize_markdown_target(SubSeq(line, j + 2, k - 1)),
                                            embed, SubSeq(line, start + 1, j - 1),
                                            line_no, start, SubSeq(line, j + 2, k - 1)))

\* extract_markdown_links_and_embeds: a '[' at start, its ']' at j
MarkdownAt(line, line_no, i, start, j, occs) ==
    IF j = 0 \/ j + 1 > Len(line) \/ line[j + 1] # "("
    THEN MarkdownFrom(line, line_no, i + 1, occs)
    ELSE MarkdownClosed(line, line_no, start, start # i, j,
                        IndexFrom(line, ")", j + 2), occs)

MarkdownStart(line, line_no, i, start, occs) ==
    IF start > Len(line) \/ line[start] # "[" THEN MarkdownFrom(line, line_no, i + 1, occs)
    ELSE MarkdownAt(line, line_no, i, start, IndexFrom(line, "]", start + 1), occs)

\* extract_markdown_links_and_embeds: the loop over the bytes
MarkdownFrom(line, line_no, i, occs) ==
    IF i > Len(line) THEN occs
    ELSE MarkdownStart(line, line_no, i, IF line[i] = "!" THEN i + 1 ELSE i, occs)

extract_markdown_links_and_embeds(line, line_no) == MarkdownFrom(line, line_no, 1, <<>>)

\* the Link of the text between '<' and '>', if it is a URL
AutoUrlLinks(inner, line_no, column) ==
    IF IsUrl(inner)
    THEN <<Link("AutoUrl", FALSE, <<>>, ExternalUrlTo(inner), NoSubpath, line_no, column, inner)>>
    ELSE <<>>

RECURSIVE AutoUrlsFrom(_, _, _, _)

\* extract_autourls: a '<' at i, its '>' at j (0: there is none)
AutoUrlAt(line, line_no, i, j, occs) ==
    IF j = 0 THEN occs
    ELSE AutoUrlsFrom(line, line_no, j + 1,
                      occs \o AutoUrlLinks(trim(SubSeq(line, i + 1, j - 1)), line_no, i))

\* extract_autourls: the loop over the bytes
AutoUrlsFrom(line, line_no, i, occs) ==
    IF i > Len(line) THEN occs
    ELSE IF line[i] # "<" THEN AutoUrlsFrom(line, line_no, i + 1, occs)
    ELSE AutoUrlAt(line, line_no, i, IndexFrom(line, ">", i + 1), occs)

extract_autourls(line, line_no) == AutoUrlsFrom(line, line_no, 1, <<>>)

\* extract_links_from_line: the occurrences (the targets are their set)
extract_links_from_line(line, line_no) ==
    extract_wikilinks_and_embeds(line, line_no)
        \o extract_markdown_links_and_embeds(line, line_no)
        \o extract_autourls(line, line_no)

\* BTreeSet<LinkTarget>: the targets inserted with the occurrences
Targets(occs) == {occs[n].target : n \in 1..Len(occs)}

\* is_fence without the trim_start
is_fence_NoTrim(line) == StartsWith(line, <<"bq", "bq", "bq">>)

\* is_fence
is_fence(line) == StartsWith(trim_start(line), <<"bq", "bq", "bq">>)

\* ParsedTask of a line that parse_task_line takes
ParsedTasks(task, line_no) ==
    [n \in 1..Len(task) |-> [line |-> line_no, status |-> task[n].status, text |-> task[n].text]]

\* extract_inline_tags_links_fields: the body of the loop for a line outside
\* fenced code (occs: what extract_links_from_line gives for it)
WithLine(note, line, line_no, occs) ==
    [tags |-> note.tags \cup extract_inline_tags_from_line(line),
     links |-> note.links \cup Targets(occs),
     link_occurrences |-> note.link_occurrences \o occs,
     inline_fields |-> note.inline_fields \o extract_inline_fields_from_line(line),
     tasks |-> note.tasks \o ParsedTasks(parse_task_line(line), line_no)]

RECURSIVE InlineFrom(_, _, _, _, _)
\* extract_inline_tags_links_fields: the loop over body.lines().enumerate()
\* (n counts from 1: line_ix = n - 1)
InlineFrom(ls, n, body_start_line, in_fenced, note) ==
    IF n > Len(ls) THEN note
    ELSE IF is_fence(ls[n]) THEN InlineFrom(ls, n + 1, body_start_line, ~in_fenced, note)
    ELSE IF in_fenced THEN InlineFrom(ls, n + 1, body_start_line, in_fenced, note)
    ELSE InlineFrom(ls, n + 1, body_start_line, in_fenced,
                    WithLine(note, ls[n], body_start_line + n - 1,
                             extract_links_from_line(ls[n], body_start_line + n - 1)))

extract_inline_tags_links_fields(body, body_start_line) ==
    InlineFrom(lines(body), 1, body_start_line, FALSE,
               [tags |-> {}, links |-> {}, link_occurrences |-> <<>>,
                inline_fields |-> <<>>, tasks |-> <<>>])

\* count_newlines
count_newlines(s) == Cardinality({i \in 1..Len(s) : s[i] = "\n"})

RECURSIVE TrimEol(_)
\* str::trim_end_matches(['\r', '\n'])
TrimEol(s) ==
    IF Len(s) > 0 /\ s[Len(s)] \in {"\r", "\n"} THEN TrimEol(SubSeq(s, 1, Len(s) - 1)) ELSE s

RECURSIVE ClosingFence(_, _, _)

\* split_frontmatter: the line of rest from idx to line_end
FenceLine(content, rest, idx, line_end) ==
    IF TrimEol(SubSeq(rest, idx, line_end)) = <<"-", "-", "-">>
    THEN [frontmatter |-> "Fenced",
          body |-> SubSeq(rest, line_end + 1, Len(rest)),
          body_start_line |->
            1 + count_newlines(SubSeq(content, 1, Len(content) - (Len(rest) - line_end)))]
    ELSE ClosingFence(content, rest, line_end + 1)

\* split_frontmatter: `while idx < bytes.len()` (idx counts from 1)
ClosingFence(content, rest, idx) ==
    IF idx > Len(rest)
    THEN [frontmatter |-> "Broken", body |-> content, body_start_line |-> 1]
    ELSE FenceLine(content, rest, idx,
                   IF IndexFrom(rest, "\n", idx) = 0 THEN Len(rest)
                   ELSE IndexFrom(rest, "\n", idx))

\* split_frontmatter ("Fenced": serde_yaml then says Valid or Broken)
split_frontmatter(content) ==
    IF StartsWith(content, <<"-", "-", "-", "\n">>)
    THEN ClosingFence(content, SubSeq(content, 5, Len(content)), 1)
    ELSE IF StartsWith(content, <<"-", "-", "-", "\r", "\n">>)
    THEN ClosingFence(content, SubSeq(content, 6, Len(content)), 1)
    ELSE [frontmatter |-> "None", body |-> content, body_start_line |-> 1]

\* parse_markdown_note: what it takes from the body (the tags of the
\* frontmatter and the title are not in the model)
ParsedBody(split) == extract_inline_tags_links_fields(split.body, split.body_start_line)

parse_markdown_note(content) == ParsedBody(split_frontmatter(content))

\* the lines a note of the model is made of
NoteLines ==
    { <<"bq", "bq", "bq">>, <<" ", "bq", "bq", "bq", "a">>, <<>>, <<"#", "t", " ", "[", "[", "A", "]", "]", " ", "k", ":", ":", " ", "v">>, <<"-", " ", "[", " ", "]", " ", "[", "a", "]", "(", "B", ")", " ", "!", "[", "[", "C", "#", "h", "|", "d", "]", "]">>,
      <<"1", ".", " ", "[", "x", "]", "n", " ", "<", "h", "t", "t", "p", ":", "/", "/", "x", ">", " ", "[", "k", ":", ":", "v", "]">> }

\* what stands before the lines of a note: nothing, a frontmatter, a
\* frontmatter whose fence is not closed
NoteHeads == { <<>>, <<"-", "-", "-", "\n", "k", ":", " ", "v", "\n", "-", "-", "-", "\n">>, <<"-", "-", "-", "\n", "k", ":", " ", "v", "\n">> }

MaxLines == 4

RECURSIVE Flatten(_)
\* the text of lines, each ended by a newline
Flatten(ls) == IF ls = <<>> THEN <<>> ELSE ls[1] \o <<"\n">> \o Flatten(Tail(ls))

\* the notes given to the parser: their head and their lines
Notes ==
    { [head |-> h, lines |-> ls] :
        h \in NoteHeads, ls \in UNION { [1..n -> NoteLines] : n \in 0..MaxLines } }

ContentOf(note) == note.head \o Flatten(note.lines)

\* parse_markdown_note(path, content)
ParseMarkdownNote ==
    /\ call.op = "input" /\ call.for = "parse_markdown_note"
    /\ LibCall([op |-> "parse_markdown_note", arg |-> call.arg,
                res |-> parse_markdown_note(ContentOf(call.arg))])

\* the lines given to parse_task_line: an indent, a list marker or what is
\* nearly one, a checkbox or what is nearly one, and the rest
TaskLines ==
    { indent \o marker \o box \o rest :
        indent \in { <<>>, <<" ", " ">> },
        marker \in { <<"-", " ">>, <<"*", " ">>, <<"+", " ">>, <<"1", ".", " ">>, <<"1", "2", ")", " ">>, <<"1", ".">>, <<"-">>, <<>>, <<"1", ":", " ">>, <<".", " ">> },
        box \in { <<"[", " ", "]">>, <<"[", "x", "]">>, <<"[", "X", "]">>, <<"[", ">", "]">>, <<"[", "-", "]">>, <<"[", "?", "]">>, <<"[", "y", "]">>, <<"[", "]">>, <<"[", " ", "x", "]">>, <<"x">> },
        rest \in { <<>>, <<" ">>, <<" ", "t">>, <<" ", " ", "t", " ">>, <<"t">> } }

\* parse_task_line(line)
ParseTaskLine ==
    /\ call.op = "input" /\ call.for = "parse_task_line"
    /\ LibCall([op |-> "parse_task_line", arg |-> call.arg, res |-> parse_task_line(call.arg.line)])

ParseInputs ==
    { Input("parse_markdown_note", note) : note \in Notes }
    \cup { Input("parse_task_line", [line |-> line]) : line \in TaskLines }

InitParse ==
    /\ InitService
    /\ call \in ParseInputs

NextParse ==
    \/ ParseMarkdownNote
    \/ ParseTaskLine

SpecParse == InitParse /\ [][NextParse]_vars

\* ---- properties of the parser ----

\* a line whose text after its leading spaces starts with three backticks
FenceText(line) ==
    \E k \in 0..Len(line) :
        /\ \A i \in 1..k : line[i] = " "
        /\ k + 3 <= Len(line)
        /\ \A i \in (k + 1)..(k + 3) : line[i] = "bq"

\* line n of ls lies inside fenced code: an odd number of fences before it
InCode(ls, n) == Cardinality({m \in 1..(n - 1) : FenceText(ls[m])}) % 2 = 1

\* the note with its fences and the lines of its fenced code made empty
WithoutCode(note) ==
    [head |-> note.head,
     lines |-> [n \in 1..Len(note.lines) |->
                    IF FenceText(note.lines[n]) \/ InCode(note.lines, n) THEN <<>>
                    ELSE note.lines[n]]]

\* C25: the parser emits no tag, link, inline field or task from a line inside
\* a fenced code block, where a line whose left-trimmed text starts with three
\* backticks toggles the in-code mode, and the fence lines emit nothing: what
\* it emits is what the lines outside the code emit at their places
C25_NothingFromCode ==
    call.op = "parse_markdown_note" =>
        call.res = parse_markdown_note(ContentOf(WithoutCode(call.arg)))

\* a note whose indented fence opens code over a line with a tag, a link and
\* a field, none of them emitted, and with a task after the closing fence
C25_Witness ==
    /\ call.op = "parse_markdown_note"
    /\ Len(call.arg.lines) = 4
    /\ call.arg.lines[1] = <<" ", "bq", "bq", "bq", "a">>
    /\ call.arg.lines[2] = <<"#", "t", " ", "[", "[", "A", "]", "]", " ", "k", ":", ":", " ", "v">>
    /\ InCode(call.arg.lines, 2)
    /\ ~InCode(call.arg.lines, 4)
    /\ call.res.tags = {}
    /\ call.res.inline_fields = <<>>
    /\ Len(call.res.tasks) = 1
    /\ Len(call.res.link_occurrences) > 0

LocationLess(a, b) ==
    \/ a.line < b.line
    \/ a.line = b.line /\ a.column < b.column

\* C26: link_occurrences lists the links in source document order (ascending
\* line, and ascending column within a line, across wiki, Markdown and
\* auto-URL links), and links is the set of the occurrences' targets
C26_DocumentOrder ==
    call.op = "parse_markdown_note" =>
        /\ \A i \in 1..Len(call.res.link_occurrences) :
                \A j \in (i + 1)..Len(call.res.link_occurrences) :
                    LocationLess(call.res.link_occurrences[i].location,
                                 call.res.link_occurrences[j].location)
        /\ call.res.links = {call.res.link_occurrences[i].target :
                                i \in 1..Len(call.res.link_occurrences)}

\* a list marker: "- ", "* ", "+ ", or digits, then '.' or ')', then a space
ListMarker(m) ==
    \/ m \in { <<"-", " ">>, <<"*", " ">>, <<"+", " ">> }
    \/ /\ Len(m) >= 3
       /\ m[Len(m)] = " "
       /\ m[Len(m) - 1] \in {".", ")"}
       /\ \A i \in 1..(Len(m) - 2) : is_ascii_digit(m[i])

StatusFor(mark) ==
    CASE mark = " " -> "Todo"
      [] mark = "x" -> "Done"
      [] mark = "X" -> "Done"
      [] mark = ">" -> "InProgress"
      [] mark = "-" -> "Cancelled"
      [] mark = "?" -> "Blocked"
      [] OTHER -> "none"

\* the task that a line has to yield if it yields one: after the marker
\* of k characters a checkbox, then at least one space, then the text
TaskOfLine(s, task) ==
    \E k \in 2..Len(s) :
        /\ ListMarker(SubSeq(s, 1, k))
        /\ Len(s) >= k + 4
        /\ s[k + 1] = "[" /\ s[k + 3] = "]"
        /\ s[k + 2] \in {" ", "x", "X", ">", "-", "?"}
        /\ s[k + 4] = " "
        /\ task.status = StatusFor(s[k + 2])
        /\ task.text = trim_start(SubSeq(s, k + 4, Len(s)))

\* C27: a line yields a Task only if, after its list marker, it has a
\* checkbox [X] with X one of space, x, X, >, -, ? followed by at least one
\* space; the status follows X, the text is the remainder with its leading
\* whitespace trimmed, and the task's line is the 1-based number of the line
\* in the original file, frontmatter lines included
C27_TaskLines ==
    /\ call.op = "parse_task_line" =>
            \A n \in 1..Len(call.res) : TaskOfLine(trim_start(call.arg.line), call.res[n])
    /\ call.op = "parse_markdown_note" =>
            \A n \in 1..Len(call.res.tasks) :
                /\ call.res.tasks[n].line \in 1..Len(lines(ContentOf(call.arg)))
                /\ TaskOfLine(trim_start(lines(ContentOf(call.arg))[call.res.tasks[n].line]),
                              call.res.tasks[n])

\* ---- query.rs: the order and the limit of a notes query ----

\* FieldValue (a Number holds its value in units of 1e-7, which the model's
\* numbers are multiples of)
Null == [type |-> "Null"]

Bool(b) == [type |-> "Bool", b |-> b]

Number(units) == [type |-> "Number", units |-> units]

String(s) == [type |-> "String", s |-> s]

List(items) == [type |-> "List", items |-> items]

\* `(n * 1_000_000.0) as i64`: the cast drops the fraction, toward zero
Micros(units) == IF units >= 0 THEN units \div 10 ELSE -((-units) \div 10)

\* sort_value_for_field: the SortValue of a scalar (none: the empty sequence)
ScalarSortValue(v) ==
    CASE v.type = "Number" -> <<[type |-> "Number", n |-> Micros(v.units)]>>
      [] v.type = "String" -> <<[type |-> "String", s |-> v.s]>>
      [] v.type = "Bool" -> <<[type |-> "Number", n |-> IF v.b THEN 1 ELSE 0]>>
      [] OTHER -> <<>>

RECURSIVE find_map(_)
\* items.iter().find_map(..): the SortValue of the first scalar of a list
find_map(items) ==
    IF items = <<>> THEN <<>>
    ELSE IF ScalarSortValue(items[1]) # <<>> THEN ScalarSortValue(items[1])
    ELSE find_map(Tail(items))

\* sort_value_for_field (fields: the FieldMap, a function of its keys)
sort_value_for_field(fields, key) ==
    IF key \notin DOMAIN fields THEN <<>>
    ELSE IF fields[key].type = "List" THEN find_map(fields[key].items)
    ELSE ScalarSortValue(fields[key])

\* Ordering::then_with
then_with(first, second) == IF first = "Equal" THEN second ELSE first

\* VaultPath::cmp
PathCmp(a, b) == IF a = b THEN "Equal" ELSE IF PathLess(a, b) THEN "Less" ELSE "Greater"

\* the derived Ord of SortValue: a Number before a String, then by value
SortValueCmp(x, y) ==
    IF x.type # y.type THEN (IF x.type = "Number" THEN "Less" ELSE "Greater")
    ELSE IF x.type = "Number"
    THEN (IF x.n < y.n THEN "Less" ELSE IF x.n = y.n THEN "Equal" ELSE "Greater")
    ELSE IF x.s = y.s THEN "Equal" ELSE IF StrLess(x.s, y.s) THEN "Less" ELSE "Greater"

\* a note without a value is last only when the order ascends
field_cmp_MissingFollowsDir(ak, bk, a, b, dir) ==
    CASE ak = <<>> /\ bk = <<>> -> PathCmp(a, b)
      [] ak = <<>> /\ bk # <<>> -> IF dir = "Asc" THEN "Greater" ELSE "Less"
      [] ak # <<>> /\ bk = <<>> -> IF dir = "Asc" THEN "Less" ELSE "Greater"
      [] OTHER -> IF dir = "Asc"
                  THEN then_with(SortValueCmp(ak[1], bk[1]), PathCmp(a, b))
                  ELSE then_with(SortValueCmp(bk[1], ak[1]), PathCmp(a, b))

\* sort_candidates, SortKey::Field: `match (ak, bk)` of the closure
field_cmp(ak, bk, a, b, dir) ==
    CASE ak = <<>> /\ bk = <<>> -> PathCmp(a, b)
      [] ak = <<>> /\ bk # <<>> -> "Greater"
      [] ak # <<>> /\ bk = <<>> -> "Less"
      [] OTHER -> IF dir = "Asc"
                  THEN then_with(SortValueCmp(ak[1], bk[1]), PathCmp(a, b))
                  ELSE then_with(SortValueCmp(bk[1], ak[1]), PathCmp(a, b))

\* sort_candidates: the comparison the sort is given (idx.fields: the fields
\* of the notes; a path that is no note has no value)
candidate_cmp(idx, sort, a, b) ==
    IF sort.key = "Path"
    THEN (IF sort.dir = "Asc" THEN PathCmp(a, b) ELSE PathCmp(b, a))
    ELSE field_cmp(IF a \in DOMAIN idx.fields
                   THEN sort_value_for_field(idx.fields[a], sort.field) ELSE <<>>,
                   IF b \in DOMAIN idx.fields
                   THEN sort_value_for_field(idx.fields[b], sort.field) ELSE <<>>,
                   a, b, sort.dir)

RECURSIVE InsertedPath(_, _, _, _)
\* a stable sort: x goes behind everything that is not greater than it
InsertedPath(idx, sort, sorted, x) ==
    IF Len(sorted) = 0 THEN <<x>>
    ELSE IF candidate_cmp(idx, sort, x, sorted[Len(sorted)]) = "Less"
    THEN Append(InsertedPath(idx, sort, SubSeq(sorted, 1, Len(sorted) - 1), x),
                sorted[Len(sorted)])
    ELSE Append(sorted, x)

RECURSIVE sort_candidates(_, _, _, _)
\* sort_candidates: paths.sort() / paths.sort_by(..) of the first n paths
sort_candidates(idx, paths, n, sort) ==
    IF n = 0 THEN <<>>
    ELSE InsertedPath(idx, sort, sort_candidates(idx, paths, n - 1, sort), paths[n])

\* Vec::truncate
truncate(v, n) == SubSeq(v, 1, IF n < Len(v) THEN n ELSE Len(v))

Limited(q, candidates) ==
    IF q.limit = <<>> THEN candidates ELSE truncate(candidates, q.limit[1])

\* Query::execute of a query without tag, prefix and predicates: the notes in
\* the order of the HashMap, sorted, truncated
execute(q, idx) ==
    Limited(q, IF q.sort = <<>> THEN idx.notes
               ELSE sort_candidates(idx, idx.notes, Len(idx.notes), q.sort[1]))

MaxNotes == 3

\* the notes of a queried index
QueryPaths == << <<<<"a", ".", "m", "d">>>>, <<<<"b", ".", "m", "d">>>>, <<<<"d", ".", "m", "d">>>>, <<<<"n">>, <<"a", ".", "m", "d">>>> >>

\* the FieldMap of a note: without the key "k", or with one of these values
FieldMaps ==
    { <<>> } \cup
    { [key \in {"k"} |-> v] :
        v \in { Null, Bool(TRUE), Number(-5), Number(0), Number(10),
                String(<<"a">>), String(<<"B">>), List(<<Null, String(<<"a">>)>>) } }

\* the orders the HashMap of the notes can give: every rotation of the
\* paths and of the paths reversed
NoteOrders ==
    UNION { { [i \in 1..MaxNotes |-> QueryPaths[((i + r) % MaxNotes) + 1]],
              [i \in 1..MaxNotes |-> QueryPaths[((r - i) % MaxNotes) + 1]] } :
            r \in 0..(MaxNotes - 1) }

QueryIndexes ==
    { [notes |-> order, fields |-> fields] :
        order \in NoteOrders,
        fields \in [{QueryPaths[i] : i \in 1..MaxNotes} -> FieldMaps] }

\* Query: its sort (none, by path, by the field "k") and its limit
Queries ==
    { [sort |-> sort, limit |-> limit] :
        sort \in { <<>> } \cup
                 { <<[key |-> "Path", field |-> "", dir |-> dir]>> : dir \in {"Asc", "Desc"} } \cup
                 { <<[key |-> "Field", field |-> "k", dir |-> dir]>> : dir \in {"Asc", "Desc"} },
        limit \in { <<>>, <<0>>, <<2>> } }

\* Query::execute(index)
Execute ==
    /\ call.op = "input" /\ call.for = "execute"
    /\ LibCall([op |-> "execute", arg |-> call.arg,
                res |-> execute(call.arg.query, call.arg.index)])

QueryInputs ==
    { Input("execute", [query |-> q, index |-> idx]) : q \in Queries, idx \in QueryIndexes }

InitQuery ==
    /\ InitService
    /\ call \in QueryInputs

NextQuery ==
    \/ Execute

SpecQuery == InitQuery /\ [][NextQuery]_vars

\* ---- properties of the query ----

\* the note has a value the sort can use: a number, a string, a bool, or a
\* list with one of them
Sortable(fields) ==
    /\ "k" \in DOMAIN fields
    /\ \/ fields["k"].type \in {"Number", "String", "Bool"}
       \/ /\ fields["k"].type = "List"
          /\ \E i \in 1..Len(fields["k"].items) :
                fields["k"].items[i].type \in {"Number", "String", "Bool"}

SortKeyOf(fields) == sort_value_for_field(fields, "k")[1]

\* the place of a before b in a query sorted by the field
ComesBefore(idx, dir, a, b) ==
    IF Sortable(idx.fields[a]) /\ Sortable(idx.fields[b])
    THEN IF SortKeyOf(idx.fields[a]) = SortKeyOf(idx.fields[b]) THEN PathLess(a, b)
         ELSE IF dir = "Asc"
         THEN SortValueCmp(SortKeyOf(idx.fields[a]), SortKeyOf(idx.fields[b])) = "Less"
         ELSE SortValueCmp(SortKeyOf(idx.fields[a]), SortKeyOf(idx.fields[b])) = "Greater"
    ELSE IF Sortable(idx.fields[a]) THEN TRUE
    ELSE IF Sortable(idx.fields[b]) THEN FALSE
    ELSE PathLess(a, b)

FirstOfOrder(idx, q, res) ==
    /\ Len(res) = IF q.limit # <<>> /\ q.limit[1] < Len(idx.notes)
                  THEN q.limit[1] ELSE Len(idx.notes)
    /\ SeqRange(res) \subseteq SeqRange(idx.notes)
    /\ \A i \in 1..Len(res) : \A j \in (i + 1)..Len(res) :
            ComesBefore(idx, q.sort[1].dir, res[i], res[j])
    /\ \A x \in SeqRange(idx.notes) \ SeqRange(res) : \A i \in 1..Len(res) :
            ComesBefore(idx, q.sort[1].dir, res[i], x)

\* C28: in a notes query sorted by a field, the notes without a sortable
\* value come after all notes that have one, for Asc and for Desc, notes with
\* equal keys are in ascending order of their paths, and the limit is applied
\* after the sort: the result is the first `limit` notes of that order
C28_MissingLastThenLimit ==
    (call.op = "execute" /\ call.arg.query.sort # <<>>
        /\ call.arg.query.sort[1].key = "Field") =>
        FirstOfOrder(call.arg.index, call.arg.query, call.res)

\* a descending query with a limit of 2 over notes met in another order: one
\* note has no value and is cut off, the two that stay have equal keys (0 and
\* a number that the cast brings to 0) and stand in the order of their paths
C28_Witness ==
    /\ call.op = "execute"
    /\ call.arg.query.sort = <<[key |-> "Field", field |-> "k", dir |-> "Desc"]>>
    /\ call.arg.query.limit = <<2>>
    /\ call.arg.index.notes[1] = <<<<"a", ".", "m", "d">>>>
    /\ ~Sortable(call.arg.index.fields[<<<<"a", ".", "m", "d">>>>])
    /\ call.arg.index.fields[<<<<"b", ".", "m", "d">>>>] = [key \in {"k"} |-> Number(-5)]
    /\ call.arg.index.fields[<<<<"d", ".", "m", "d">>>>] = [key \in {"k"} |-> Number(0)]
    /\ PathLess(call.arg.index.notes[3], call.arg.index.notes[2])
    /\ call.res = << <<<<"b", ".", "m", "d">>>>, <<<<"d", ".", "m", "d">>>> >>

\* C30: apply_events emits no VaultEvent and leaves the index unchanged for
\* a Create or Modify event whose path is a directory: the Upsert op of such
\* an event pushes nothing and does not touch the index
C30_DirectorySkipped ==
    [][(OpStep /\ ops[ix].type = "Upsert" /\ disk[ops[ix].path].type = "dir") =>
        /\ NewEvents = <<>>
        /\ index' = index]_vars

\* apply_events went past the Upsert of a directory without an event, in a
\* batch over an index that holds a file
C30_Witness ==
    /\ pc = "busy"
    /\ \E i \in DOMAIN saw :
            /\ ops[i].type = "Upsert"
            /\ disk[ops[i].path].type = "dir"
            /\ saw[i].stat = "dir"
            /\ saw[i].n = 0
    /\ DOMAIN index.files # {}

-----------------------------------------------------------------------------
(* Frame of a failed or skipped upsert_path (SpecIndex) *)

\* the upsert_path call of the step returned early or with an error
UpsertSkipped ==
    \/ ~call'.ok
    \/ ~is_indexable_rel(call'.path)
    \/ StatKind(Stat(disk, call'.path)) = "dir"

\* C39: when upsert_path returns an error (its metadata call or its read
\* failed) or returns early for a path that is not indexable or is not a
\* regular file, the index is as before the call (files, notes, per-file sets
\* and the tag reverse index), and an early return carries an empty delta.
C39_FailedUpsertKeepsIndex ==
    [][(Called("upsert_path") /\ UpsertSkipped) =>
        /\ index'.files = index.files /\ index'.notes = index.notes
        /\ index'.file_tags = index.file_tags /\ index'.file_links = index.file_links
        /\ index'.tags = index.tags
        /\ call'.delta = EmptyDelta]_vars

\* upsert_path has just failed to read an indexed, tagged note whose file on
\* disk is no longer what the index holds
C39_Witness ==
    /\ call.op = "upsert_path" /\ ~call.ok /\ call.err = "InvalidData"
    /\ call.path \in DOMAIN index.notes
    /\ index.notes[call.path].tags # {}
    /\ disk[call.path].type = "file" /\ disk[call.path].body # index.notes[call.path].body
    /\ index = before

-----------------------------------------------------------------------------
(* A batch of plain events and the disk (Spec) *)

\* the batch is made of Create, Modify(Data) and Remove events only
PlainBatch(b) ==
    \A i \in DOMAIN b : b[i].kind \in {"Create", "Modify(Data)", "Remove"}

\* the positions of the events of the batch that name the path
EventsOn(b, p) == {i \in DOMAIN b : Abs(p) \in {b[i].paths[k] : k \in DOMAIN b[i].paths}}

\* the file of the path can be indexed: it exists, can be reached and read
Indexable(d, p) ==
    /\ d[p].type = "file" /\ ParentOk(d, p) /\ is_indexable_rel(p)
    /\ (file_kind_from_path(p) \in {"Markdown", "Canvas"} => ~ReadFails(d[p].body))

\* the index holds the path with what is on disk
IndexedAsOnDisk(idx, d, p) ==
    /\ p \in DOMAIN idx.files
    /\ idx.files[p] = FileMeta(p, Stat(d, p))
    /\ (file_kind_from_path(p) \in {"Markdown", "Canvas"} =>
            (p \in DOMAIN idx.notes /\ idx.notes[p].body = d[p].body))

\* the path agrees with the disk: indexed as on disk if its file can be
\* indexed, absent if there is no file
AgreesWithDisk(idx, d, p) ==
    /\ Indexable(d, p) => IndexedAsOnDisk(idx, d, p)
    /\ d[p].type = "none" => p \notin DOMAIN idx.files

\* C31 as stated: when apply_events returns from a batch of Create, Modify
\* and Remove events during which the disk did not change, every path the
\* batch names is indexed if its file exists and can be indexed, and absent
\* from the index if the file does not exist.
C31_BatchAgreesWithDisk ==
    [][(ReturnStep /\ pending = <<>> /\ PlainBatch(batch)) =>
        \A p \in FilePaths :
            EventsOn(batch, p) # {} => AgreesWithDisk(index, disk, p)]_vars

-----------------------------------------------------------------------------
(* A subscriber that follows the deltas of the events (Spec) *)

\* the set a subscriber holds for path p after it applied the delta of one
\* event to the set s: `added` and `removed` are the event's sets of tags or
\* of links; a Renamed event removes from `from` and adds to `to`
AfterEvent(s, p, ev, added, removed) ==
    CASE ev.type = "Indexed" -> IF ev.path = p THEN (s \ removed) \cup added ELSE s
      [] ev.type = "Removed" -> IF ev.path = p THEN s \ removed ELSE s
      [] ev.type = "Renamed" ->
            LET rest == IF ev.from = p THEN s \ removed ELSE s
            IN  IF ev.to = p THEN rest \cup added ELSE rest
      [] OTHER -> s

RECURSIVE TagsAfter(_, _, _, _)
\* the tags the subscriber holds for p after the events evs[i..]
TagsAfter(s, p, evs, i) ==
    IF i > Len(evs) THEN s
    ELSE TagsAfter(AfterEvent(s, p, evs[i], evs[i].delta.added_tags, evs[i].delta.removed_tags),
                   p, evs, i + 1)

RECURSIVE LinksAfter(_, _, _, _)
\* the links the subscriber holds for p after the events evs[i..]
LinksAfter(s, p, evs, i) ==
    IF i > Len(evs) THEN s
    ELSE LinksAfter(AfterEvent(s, p, evs[i], evs[i].delta.added_links, evs[i].delta.removed_links),
                    p, evs, i + 1)

\* the step keeps a subscriber in line with the index: the sets of the index
\* before the step with the deltas of the step's events are the sets after it
\* (a path without an entry counts as a path with empty sets)
DeltasTrack ==
    \A p \in Paths :
        /\ TagsAfter(OldSet(index.file_tags, p), p, NewEvents, 1) = OldSet(index'.file_tags, p)
        /\ LinksAfter(OldSet(index.file_links, p), p, NewEvents, 1) = OldSet(index'.file_links, p)

\* C32 as stated: the deltas of the events of every op, applied in order to
\* the per-path tag and link sets the index had before the op, give the
\* per-path sets the index has after it, also for a Rename onto an indexed
\* path and for a Rename whose upsert fails.
C32_DeltasTrackIndex == [][OpStep => DeltasTrack]_vars

-----------------------------------------------------------------------------
(* A rebuild next to the watch loop (SpecCast) *)

\* the watch loop has applied and broadcast everything it was told of
LoopQuiet == pc \in {"idle", "top"} /\ pending = <<>>

\* C33 as stated: once build_index has replaced the index and the watch loop
\* has applied every batch, with no filesystem change left to report, the
\* index agrees with the disk for every path: a file that can be indexed is
\* indexed with its current content, a missing file is absent.
C33_RebuildLosesNothing ==
    (bstate = "swapped" /\ LoopQuiet) =>
        \A p \in LoopPaths : AgreesWithDisk(index, disk, p)

-----------------------------------------------------------------------------
(* start_watching after shutdown() (SpecRestart).  The service of the model *)
(* starts with its watcher installed; `watching` is watcher.is_some().      *)

\* VaultService::start_watching.  It takes &mut self, as shutdown() does, so
\* it does not run while shutdown() waits for the loop.  With a watcher
\* installed it returns at once.  Otherwise it makes a new raw channel and a
\* new watcher, and spawns a new watch_loop with a receiver subscribed to the
\* service's one shutdown channel, whose value nothing ever sets back to false.
StartWatching ==
    /\ sd # "joining"
    /\ IF watching
       THEN UNCHANGED <<raw, watching, pending, armed, left, quiet, pc, sd>>
       ELSE /\ raw' = <<>>
            /\ watching' = TRUE
            /\ pending' = <<>>
            /\ armed' = FALSE
            /\ left' = Debounce
            /\ quiet' = 0
            /\ pc' = "top"
            /\ sd' = "none"
    /\ UNCHANGED <<disk, fsops, index, call, before, batch, ops, ix, out, saw>>
    /\ UNCHANGED <<shutdown, sx, sent, nb>>
    /\ UNCHANGED castVars

NextRestart ==
    \/ NextLive
    \/ StartWatching

SpecRestart == Init /\ [][NextRestart]_vars

\* C34 as stated: while a watcher is installed and shutdown() has not been
\* called since it was installed, the watch loop is running (so that it
\* receives, applies and broadcasts what the watcher reports), after a
\* start_watching that follows a completed shutdown() too.
C34_RestartResumes == (watching /\ sd = "none") => pc # "done"

-----------------------------------------------------------------------------
(* The store file inside the vault (SpecStore): the subscriber of           *)
(* examples/sqlite_persist.rs keeps its SQLite file at default_db_path, in  *)
(* the watched tree.  The store sets no journal mode, so a transaction that *)
(* changes rows creates the rollback journal next to the database file,     *)
(* writes the database and deletes the journal; a transaction that changes  *)
(* no row is taken to touch no file.  The store's files are not part of     *)
(* `disk`: no op of the model reads them.                                   *)

\* SqliteIndexStore::default_db_path, relative to the vault root
default_db_path == <<".obsidian", "system3-obsidian.sqlite">>

\* the rollback journal of the database file
JournalPath == <<".obsidian", "system3-obsidian.sqlite-journal">>

\* a call on the store; `hit` tells whether the snapshot handed to
\* upsert_path holds the path (upsert_path_in_tx returns early if not)
StoreCallOn(op, path, idx) ==
    [op |-> op, path |-> path, hit |-> op = "upsert_path" /\ path \in DOMAIN idx.files]

\* the store calls of the subscriber's loop for one received event
SubscriberCalls(ev, idx) ==
    CASE ev.type = "Indexed" -> <<StoreCallOn("upsert_path", ev.path, idx)>>
      [] ev.type = "Removed" -> <<StoreCallOn("remove_path", ev.path, idx)>>
      [] ev.type = "Renamed" ->
            <<StoreCallOn("remove_path", ev.from, idx), StoreCallOn("upsert_path", ev.to, idx)>>
      [] OTHER -> <<>>

RECURSIVE StoredAfter(_, _)
\* the paths that have rows in the store after the first n calls
StoredAfter(calls, n) ==
    IF n = 0 THEN {}
    ELSE LET c == calls[n]
             s == StoredAfter(calls, n - 1)
         IN  IF c.op = "remove_path" THEN s \ {c.path}
             ELSE IF c.hit THEN s \cup {c.path}
             ELSE s

\* what notify reports of one transaction that changes rows
TransactionEvents ==
    <<Event("Create", <<Abs(JournalPath)>>),
      Event("Modify(Data)", <<Abs(default_db_path)>>),
      Event("Remove", <<Abs(JournalPath)>>)>>

RECURSIVE EventsOfCalls(_, _, _)
\* what notify reports of the calls cs[i..] made on a store that holds the
\* rows of `stored`
EventsOfCalls(cs, i, stored) ==
    IF i > Len(cs) THEN <<>>
    ELSE LET c == cs[i]
             writes == IF c.op = "remove_path" THEN c.path \in stored ELSE c.hit
             next == IF c.op = "remove_path" THEN stored \ {c.path}
                     ELSE IF c.hit THEN stored \cup {c.path} ELSE stored
         IN  (IF writes THEN TransactionEvents ELSE <<>>) \o EventsOfCalls(cs, i + 1, next)

\* index_snapshot() without the lock: the reader does not wait for the writer
CanReadIndex_NoLock(p) == TRUE

\* with_index / index_snapshot: index.read() is granted while apply_events
\* does not hold the write lock
CanReadIndex(p) == p # "busy"

\* the subscriber's loop: rx.recv(), then the store calls for the event; the
\* watcher reports what the calls did to the store's files
StoreRecvWrites ==
    /\ rx["store"].alive /\ rx["store"].next < Len(sent)
    /\ LET r == RecvResult(sent, rx["store"].next)
           cs == IF r.type = "Lagged" THEN <<>> ELSE SubscriberCalls(r, index)
       IN  /\ r.type \in {"Indexed", "Renamed"} => CanReadIndex(pc)
           /\ store' = store \o cs
           /\ pending' = pending \o EventsOfCalls(cs, 1, StoredAfter(store, Len(store)))
    /\ rx' = [rx EXCEPT !["store"].next = RecvNext(sent, rx["store"].next)]
    /\ UNCHANGED <<disk, fsops, index, call, before, batch, pc, ops, ix, out, saw>>
    /\ UNCHANGED <<loopVars, got, built, bstate>>

NextStore ==
    \/ /\ fsops < MaxCastOps
       /\ \E p \in LoopPaths : \E v \in WritableVersions(p) : FsWrite(p, v)
    \/ /\ fsops < MaxCastOps
       /\ \E p \in LoopPaths : FsRemove(p)
    \/ /\ fsops < MaxCastOps
       /\ \E p, q \in LoopPaths : \E paired \in BOOLEAN : FsRename(p, q, paired)
    \/ ApplyBegin
    \/ ApplyOp
    \/ ApplyReturn
    \/ SendOne
    \/ SendDone
    \/ LoopTop
    \/ StoreRecvWrites

SpecStore == Init /\ [][NextStore]_vars

\* C35 as stated: what the subscriber's store writes do to the store's files
\* under .obsidian produces no VaultEvent: no broadcast event is about a path
\* under an ignored directory.
C35_StoreWritesAreSilent ==
    \A i \in DOMAIN sent :
        \A p \in EventPaths(sent[i].ev) : ~is_ignored_rel(p)

\* C36 as stated: every Indexed, Removed or Renamed event that apply_events
\* hands to the broadcast is about indexable paths only, whatever the kind of
\* the notify event behind it.
C36_OnlyIndexableEvents ==
    \A i \in DOMAIN out :
        out[i].type \in {"Indexed", "Removed", "Renamed"} =>
            \A p \in EventPaths(out[i]) : is_indexable_rel(p)

\* the step leaves the events received so far where they are
PendingKept ==
    /\ RecvStep => pending' = Append(pending, Head(raw).ev)
    /\ DrainStep => batch' = pending /\ pending' = <<>>
    /\ ~(RecvStep \/ DrainStep) => pending' = pending

\* C37 as stated: an event the loop has received goes, once, into the batch of
\* the next drain, also when it is received after an earlier batch was
\* applied, and the loop does not end while it holds received events that no
\* batch has taken.
C37_NoEventLost ==
    [][/\ PendingKept
       /\ (pc # "done" /\ pc' = "done") => pending = <<>>]_vars

\* the step is the subscriber taking index_snapshot() for a received event
SnapshotStep ==
    /\ Len(store') > Len(store)
    /\ \E i \in (Len(store) + 1)..Len(store') : store'[i].op = "upsert_path"

\* C38: the index changes only in the steps of apply_events; no subscriber
\* takes a snapshot of the index while a batch is being applied; an event is
\* broadcast only when every op of its batch has been applied; so a snapshot
\* taken for an event of the latest batch is the index as that batch left it.
C38_BatchAtomic ==
    [][/\ index' # index => pc = "busy" /\ pc' = "busy"
       /\ SnapshotStep => pc # "busy"
       /\ sent' # sent => (pc = "send" /\ ix > Len(ops) /\ Len(saw) = Len(ops))]_vars

\* the subscriber took its snapshots for the two Indexed events of one batch
\* of two ops, and found both notes in them
C38_Witness ==
    \E i, j \in DOMAIN sent :
        /\ i < j /\ j <= rx["store"].next
        /\ sent[i].b = sent[j].b
        /\ sent[i].ev.type = "Indexed" /\ sent[j].ev.type = "Indexed"
        /\ sent[i].ev.path # sent[j].ev.path
        /\ \E k, l \in DOMAIN store :
              /\ k < l
              /\ store[k] = StoreCallOn("upsert_path", sent[i].ev.path, index) /\ store[k].hit
              /\ store[l] = StoreCallOn("upsert_path", sent[j].ev.path, index) /\ store[l].hit

\* C40 as stated: the result of resolving a reference from a source note is
\* the same for two indexes that hold the same files, notes and aliases, in
\* whatever order their files come out of all_files(), also when two of the
\* paths differ by letter case only.
C40_OrderIndependent ==
    call.op = "resolve_internal" =>
        call.res = resolve_internal_with_source(
                       Reversed(call.arg.files), call.arg.reference, call.arg.source)

====
